---- MODULE Spec2Model ----
(***************************************************************************)
(* State-machine model of the wallet / registration subsystem of           *)
(* bevy-game/src/main.rs: the single-slot task cells of AsyncTasks, the    *)
(* status records BalanceState and RegistrationState, the wallet identity  *)
(* in WalletData, the OS keychain entry, and the Bevy systems that read    *)
(* and write them once per update tick.                                    *)
(*                                                                         *)
(* Conventions.  Option<T> is a sequence: None is <<>> and Some(x) is      *)
(* <<x>>.  Result<T,E> is <<"Ok", v>> or <<"Err", e>>.  A mnemonic, the    *)
(* private key and the address derived from it are all named by the        *)
(* mnemonic's number (derivation is a function of the phrase); 0 is the    *)
(* phrase that Mnemonic::parse_in_normalized rejects.                      *)
(***************************************************************************)
EXTENDS Integers, Sequences, FiniteSets, TLC

VARIABLES
    started,            \* Startup schedule has run (load_wallet_from_keychain)
    app_state,          \* State<AppState>
    wallet_state,       \* State<WalletState>
    buttons,            \* what stands below the ContentArea node: the action
                        \* buttons and, of the messages a handler puts in
                        \* their place, the heading that reports a refused
                        \* phrase
    wallet_data,        \* WalletData {private_key, address, mnemonic}
    keychain,           \* the keyring entry of (service_name, username)
    balance_state,      \* BalanceState
    registration_state, \* RegistrationState
    async_tasks,        \* AsyncTasks
    wallet_state_changed,
                        \* State<WalletState> changed and the view system of
                        \* the new state has not run since
    registration_state_changed,
                        \* async_task_polling_system wrote RegistrationState
                        \* and wallet_registration_ui_system, scheduled in
                        \* the current wallet state, has not run since
    frame,              \* where the app runner is in its loop of frames
    client_call,        \* one call of a GalaChainClient request method
    credential          \* the keyring entry as text, and calls of KeychainManager

vars == <<started, app_state, wallet_state, buttons, wallet_data,
          keychain, balance_state, registration_state, async_tasks,
          wallet_state_changed, registration_state_changed, frame,
          client_call, credential>>

\* The resources of the running application.
app_vars == <<started, app_state, wallet_state, buttons, wallet_data,
              keychain, balance_state, registration_state, async_tasks,
              wallet_state_changed, registration_state_changed, frame>>

----------------------------------------------------------------------------
(* Bounds of the model *)

MaxWallet == 2      \* distinct valid recovery phrases

----------------------------------------------------------------------------
(* Option and Result *)

None == <<>>
Some(x) == <<x>>
IsSome(o) == o # <<>>
Unwrap(o) == o[1]

Ok(v) == <<"Ok", v>>
Err(e) == <<"Err", e>>
IsOk(r) == r[1] = "Ok"

\* A recovery phrase is named by a number: 1..MaxWallet are valid twelve-word
\* phrases, the others are phrases Mnemonic::parse_in_normalized rejects, one
\* for each rule a phrase can break.  The twelve ImportState.seed_words
\* fields take letters only, so a joined phrase has at most twelve words.
Mnemonics == 1..MaxWallet
WrongWordCount == 0
UnknownWord == -1
WrongChecksum == -2
InvalidPhrases == {WrongWordCount, UnknownWord, WrongChecksum}
Phrases == Mnemonics \cup InvalidPhrases

\* A reading of the system clock.  No modelled decision depends on the value
\* read, so every reading is the one token.
SystemTime_now == "now"

----------------------------------------------------------------------------
(* Types of the program *)

\* AppState::Settings and AppState::Info, and WalletState::Export, Transfer
\* and Burn, are left out: their systems read and write none of the state
\* modelled here and behave as MainMenu and Overview do.
AppState == {"MainMenu", "WalletMenu"}
WalletState == {"Overview", "Generate", "Import", "Registration", "Balance"}

\* One cell of AsyncTasks: a bevy Task handle.  `for` is the address (or key)
\* the closure captured, `result` is None until the worker has produced the
\* closure's return value.
Task(a) == [for |-> a, result |-> None]

\* IoTaskPool::get().spawn(..) assigned to a slot: the slot holds the new
\* task; a task it held before is dropped, which cancels it and discards
\* whatever it has produced.
spawn(slot, a) == Some(Task(a))

BalanceState_default ==
    [loading |-> FALSE, available |-> 0, locked |-> 0,
     error |-> None, last_updated |-> None]

RegistrationState_default ==
    [checking |-> FALSE, registering |-> FALSE, is_registered |-> None,
     error |-> None, last_checked |-> None]

AsyncTasks_default ==
    [balance_task |-> None, registration_check_task |-> None,
     registration_task |-> None]

WalletData_default ==
    [private_key |-> None, address |-> None, mnemonic |-> None]

SecureWalletData(m, t) == [mnemonic |-> m, created_at |-> t]

----------------------------------------------------------------------------
(* Mnemonic / key engine *)

\* KeychainManager::generate_wallet_from_mnemonic: a phrase the parser
\* rejects is an error, a valid phrase gives the key and the address that
\* are functions of it.
\* A faulty variant of generate_wallet_from_mnemonic: the checksum of the
\* phrase is not verified.
generate_wallet_from_mnemonic_unchecked(mnemonic) ==
    IF mnemonic \in Mnemonics \/ mnemonic = WrongChecksum
    THEN Ok(<<mnemonic, mnemonic>>)
    ELSE Err("Invalid mnemonic")

generate_wallet_from_mnemonic(mnemonic) ==
    IF mnemonic \in Mnemonics
    THEN Ok(<<mnemonic, mnemonic>>)
    ELSE Err("Invalid mnemonic")

----------------------------------------------------------------------------
(* Chain client: retry loop *)

\* `operation` is the sequence of results the successive calls of the
\* closure return; the loop runs attempt = 0..=max_retries.
RECURSIVE retry_loop(_, _, _, _)
retry_loop(operation, max_retries, attempt, delays) ==
    LET r == operation[attempt + 1] IN
    IF IsOk(r)
    THEN [result |-> r, attempts |-> attempt + 1, delays |-> delays]
    ELSE IF attempt < max_retries
         THEN retry_loop(operation, max_retries, attempt + 1,
                         Append(delays, 1000 * (2 ^ attempt)))
         ELSE [result |-> r, attempts |-> attempt + 1, delays |-> delays]

retry_request(operation, max_retries) ==
    retry_loop(operation, max_retries, 0, <<>>)

check_registration_max_retries == 2
register_user_max_retries == 3
get_gala_balance_max_retries == 3

\* Results one attempt of each request can give: the value of a 2xx
\* response, or the GalaChainError::Api error of a failed one.
BalanceAttempts == {Ok(<<70, 30>>), Err("Balance request failed")}
CheckAttempts == {Ok(TRUE), Ok(FALSE), Err("Registration check failed")}
RegisterAttempts == {Ok("unit"), Err("Registration failed")}

check_registration_blocking(operation) ==
    retry_request(operation, check_registration_max_retries).result
register_user_blocking(operation) ==
    retry_request(operation, register_user_max_retries).result
get_gala_balance_blocking(operation) ==
    retry_request(operation, get_gala_balance_max_retries).result

----------------------------------------------------------------------------
(* Content area: which action buttons the view systems spawn *)

\* wallet_balance_system, on entering the Balance view: the Refresh button is
\* spawned only when a wallet address exists.
render_balance(wd) ==
    IF IsSome(wd.address) THEN {"RefreshBalance"} ELSE {}

\* wallet_registration_ui_system, on entering the view or when
\* RegistrationState changed: Check always (given an address), Register only
\* when the last known status is "not registered".
render_registration(wd, rs) ==
    IF IsSome(wd.address)
    THEN {"CheckRegistration"} \cup
         (IF rs.is_registered = Some(FALSE) THEN {"RegisterIdentity"} ELSE {})
    ELSE {}

\* The reset each view system applies when State<WalletState> changed to it.
enter_balance(bs) == [bs EXCEPT !.loading = FALSE, !.error = None]

enter_registration(rs) ==
    [rs EXCEPT !.checking = FALSE, !.registering = FALSE, !.error = None]

----------------------------------------------------------------------------
(* Initial state: resources as inserted by MenuPlugin and WalletPlugin; the  *)
(* keychain is whatever an earlier run of the program left there.            *)

Init ==
    /\ started = FALSE
    /\ app_state = "MainMenu"
    /\ wallet_state = "Overview"
    /\ buttons = {}
    /\ wallet_data = WalletData_default
    /\ keychain \in {None} \cup {Some(SecureWalletData(m, SystemTime_now)) : m \in Mnemonics}
    /\ balance_state = BalanceState_default
    /\ registration_state = RegistrationState_default
    /\ async_tasks = AsyncTasks_default
    /\ wallet_state_changed = FALSE
    /\ registration_state_changed = FALSE
    /\ frame = "free"
    /\ client_call = None
    /\ credential = None

----------------------------------------------------------------------------
(* The app runner *)

\* The runner executes frames until AppExit is sent.  In each frame the
\* StateTransition schedule applies the NextState a menu system set in the
\* frame before, and then Update runs every system whose run condition holds
\* once, async_task_polling_system and the view system of the wallet state in
\* either order.  A view system that finds nothing changed and no button
\* pressed does nothing, and so does a poll that finds no task finished; a
\* worker returns at a moment of its own, before or after the poll of a
\* frame.  Where such runs are all that separates two steps, the position in
\* the frame is not told apart:
\*   "free"    no order is fixed: a poll, a run of the view system or a
\*             state transition can come next;
\*   "start"   a state transition has been applied and something is still
\*             unseen by the view system: neither the poll nor the view
\*             system of this frame has run;
\*   "polled"  the poll of this frame has run with something still unseen:
\*             the view system of this frame runs next;
\*   "exit"    AppExit was sent: the runner has left its loop.
Frames == {"free", "start", "polled", "exit"}

running == started /\ frame # "exit"

\* Something the view system of the wallet state has not seen yet.
unseen == wallet_state_changed \/ registration_state_changed

\* query.iter() over the ContentArea entities: one in the wallet menu, none
\* in the main menu.
content_area == app_state = "WalletMenu"

----------------------------------------------------------------------------
(* Startup *)

\* A faulty variant of load_wallet_from_keychain: the identity is not derived
\* from the stored phrase but drawn afresh, as generate_wallet() does.
load_wallet_from_keychain_fresh_key ==
    /\ ~started
    /\ started' = TRUE
    /\ \E access_ok \in BOOLEAN, fresh \in Mnemonics :
         wallet_data' =
           IF access_ok /\ IsSome(keychain)
           THEN [private_key |-> Some(fresh),
                 address |-> Some(fresh),
                 mnemonic |-> Some(Unwrap(keychain).mnemonic)]
           ELSE wallet_data
    /\ UNCHANGED <<app_state, wallet_state, buttons, keychain,
                   balance_state, registration_state, async_tasks>>
    /\ UNCHANGED <<wallet_state_changed, registration_state_changed, frame>>
    /\ UNCHANGED <<client_call, credential>>

\* load_wallet_from_keychain; access_ok = FALSE is a failure of Entry::new
\* or of get_password other than NoEntry (KeychainError::Access).
load_wallet_from_keychain ==
    /\ ~started
    /\ started' = TRUE
    /\ \E access_ok \in BOOLEAN :
         LET derived == IF IsSome(keychain)
                        THEN generate_wallet_from_mnemonic(Unwrap(keychain).mnemonic)
                        ELSE Err("NotFound")
         IN wallet_data' =
              IF access_ok /\ IsSome(keychain) /\ IsOk(derived)
              THEN [private_key |-> Some(derived[2][1]),
                    address |-> Some(derived[2][2]),
                    mnemonic |-> Some(Unwrap(keychain).mnemonic)]
              ELSE wallet_data
    /\ UNCHANGED <<app_state, wallet_state, buttons, keychain,
                   balance_state, registration_state, async_tasks>>
    /\ UNCHANGED <<wallet_state_changed, registration_state_changed, frame>>
    /\ UNCHANGED <<client_call, credential>>

----------------------------------------------------------------------------
(* Menu navigation *)

\* MainMenuAction; Settings and Info are left out with their states.
MainMenuAction == {"Wallet", "Exit"}

\* main_menu_system.  Wallet: NextState is set and applied by the next
\* StateTransition, whose OnExit / OnEnter systems despawn the menu tree and
\* spawn the wallet menu with an empty ContentArea.  Exit: AppExit is sent.
main_menu_system(action) ==
    /\ running
    /\ frame = "free"
    /\ app_state = "MainMenu"
    /\ IF action = "Exit"
       THEN /\ frame' = "exit"
            /\ UNCHANGED <<app_state, buttons>>
       ELSE /\ app_state' = "WalletMenu"
            /\ buttons' = {}
            /\ frame' = IF unseen THEN "start" ELSE "free"
    /\ UNCHANGED <<started, wallet_state, wallet_data, keychain,
                   balance_state, registration_state, async_tasks>>
    /\ UNCHANGED <<wallet_state_changed, registration_state_changed>>
    /\ UNCHANGED <<client_call, credential>>

\* back_button_system; OnExit despawns the menu tree, ContentArea included.
\* The Back button exists in every menu but the main one.
back_button_system ==
    /\ running
    /\ frame = "free"
    /\ app_state # "MainMenu"
    /\ app_state' = "MainMenu"
    /\ buttons' = {}
    /\ frame' = IF unseen THEN "start" ELSE "free"
    /\ UNCHANGED <<started, wallet_state, wallet_data, keychain,
                   balance_state, registration_state, async_tasks>>
    /\ UNCHANGED <<wallet_state_changed, registration_state_changed>>
    /\ UNCHANGED <<client_call, credential>>

\* wallet_menu_system sets NextState<WalletState>, which the next
\* StateTransition applies: the content area and the status records are as
\* they were until the view system of the new state runs.  Selecting the
\* current view is an identity transition: State<WalletState> is not
\* touched.  After a change the next run of wallet_registration_ui_system is
\* an entering run, whatever was written to RegistrationState before.
wallet_menu_system(action) ==
    /\ running
    /\ frame = "free"
    /\ app_state = "WalletMenu"
    /\ wallet_state' = action
    /\ IF action = wallet_state
       THEN UNCHANGED <<wallet_state_changed, registration_state_changed, frame>>
       ELSE /\ wallet_state_changed' = TRUE
            /\ registration_state_changed' = FALSE
            /\ frame' = "start"
    /\ UNCHANGED <<started, app_state, buttons, wallet_data, keychain,
                   balance_state, registration_state, async_tasks>>
    /\ UNCHANGED <<client_call, credential>>

----------------------------------------------------------------------------
(* Credential store *)

\* KeychainManager::store_wallet as its callers see it: it overwrites the
\* single entry, or fails with KeychainError::Access (access_ok = FALSE: in
\* Entry::new or in set_password) and leaves it alone.
store_wallet(entry, wallet, access_ok) ==
    IF access_ok
    THEN [entry |-> Some(wallet), result |-> Ok("unit")]
    ELSE [entry |-> entry, result |-> Err("Keychain access error")]

----------------------------------------------------------------------------
(* View systems without tracked handlers *)

\* wallet_overview_system, scheduled in the wallet menu: on entering the
\* Overview it replaces the content area by the overview, which has none of
\* the action buttons.
wallet_overview_system ==
    /\ running
    /\ app_state = "WalletMenu"
    /\ wallet_state = "Overview"
    /\ wallet_state_changed
    /\ buttons' = {}
    /\ wallet_state_changed' = FALSE
    /\ frame' = "free"
    /\ UNCHANGED <<started, app_state, wallet_state, wallet_data, keychain,
                   balance_state, registration_state, async_tasks>>
    /\ UNCHANGED <<registration_state_changed, client_call, credential>>

----------------------------------------------------------------------------
(* Generate and import *)

\* The commands a view system queues on entering are applied after its run:
\* the handlers of the same run see the buttons that were there before.
entered(content) ==
    IF wallet_state_changed /\ content_area THEN content ELSE buttons

\* wallet_generate_system, entering the Generate view, no button pressed.
wallet_generate_system_entering ==
    /\ running
    /\ wallet_state = "Generate"
    /\ wallet_state_changed
    /\ buttons' = entered({"GenerateWallet"})
    /\ wallet_state_changed' = FALSE
    /\ frame' = "free"
    /\ UNCHANGED <<started, app_state, wallet_state, wallet_data, keychain,
                   balance_state, registration_state, async_tasks>>
    /\ UNCHANGED <<registration_state_changed, client_call, credential>>

\* wallet_import_system, entering the Import view, no button pressed.
wallet_import_system_entering ==
    /\ running
    /\ wallet_state = "Import"
    /\ wallet_state_changed
    /\ buttons' = entered({"ImportWallet"})
    /\ wallet_state_changed' = FALSE
    /\ frame' = "free"
    /\ UNCHANGED <<started, app_state, wallet_state, wallet_data, keychain,
                   balance_state, registration_state, async_tasks>>
    /\ UNCHANGED <<registration_state_changed, client_call, credential>>

\* A faulty variant of wallet_generate_system: the identity is published
\* even when store_wallet failed.
wallet_generate_system_publishes_unstored ==
    /\ running
    /\ wallet_state = "Generate"
    /\ "GenerateWallet" \in buttons
    /\ \E m \in Mnemonics, access_ok \in BOOLEAN :
         LET derived == generate_wallet_from_mnemonic(m)
             stored == store_wallet(keychain, SecureWalletData(m, SystemTime_now), access_ok)
         IN IF IsOk(derived) /\ IsOk(stored.result)
            THEN /\ keychain' = stored.entry
                 /\ wallet_data' = [private_key |-> Some(derived[2][1]),
                                    address |-> Some(derived[2][2]),
                                    mnemonic |-> Some(m)]
                 /\ buttons' = {}
            ELSE /\ keychain' = IF IsOk(derived) THEN stored.entry ELSE keychain
                 /\ wallet_data' = [private_key |-> Some(derived[2][1]),
                                    address |-> Some(derived[2][2]),
                                    mnemonic |-> Some(m)]
                 /\ buttons' = {}
    /\ wallet_state_changed' = FALSE
    /\ frame' = "free"
    /\ UNCHANGED <<started, app_state, wallet_state, balance_state,
                   registration_state, async_tasks>>
    /\ UNCHANGED <<registration_state_changed, client_call, credential>>

\* wallet_generate_system, Generate button pressed: generate_wallet_secure
\* draws entropy (the phrase m), derives, stores; only then is WalletData
\* written.  Either outcome replaces the content area by a message.
wallet_generate_system ==
    /\ running
    /\ wallet_state = "Generate"
    /\ "GenerateWallet" \in buttons
    /\ \E m \in Mnemonics, access_ok \in BOOLEAN :
         LET derived == generate_wallet_from_mnemonic(m)
             stored == store_wallet(keychain, SecureWalletData(m, SystemTime_now), access_ok)
         IN IF IsOk(derived) /\ IsOk(stored.result)
            THEN /\ keychain' = stored.entry
                 /\ wallet_data' = [private_key |-> Some(derived[2][1]),
                                    address |-> Some(derived[2][2]),
                                    mnemonic |-> Some(m)]
                 /\ buttons' = {}
            ELSE /\ keychain' = IF IsOk(derived) THEN stored.entry ELSE keychain
                 /\ wallet_data' = wallet_data
                 /\ buttons' = {}
    /\ wallet_state_changed' = FALSE
    /\ frame' = "free"
    /\ UNCHANGED <<started, app_state, wallet_state, balance_state,
                   registration_state, async_tasks>>
    /\ UNCHANGED <<registration_state_changed, client_call, credential>>

\* wallet_import_system, Import button pressed.  seed_words is the phrase the
\* twelve ImportState.seed_words fields spell at the press: the fields are
\* emptied by the entering run and filled from the keyboard before it.
wallet_import_system(seed_words) ==
    /\ running
    /\ wallet_state = "Import"
    /\ "ImportWallet" \in buttons
    /\ wallet_state_changed => seed_words = WrongWordCount
    /\ \E access_ok \in BOOLEAN :
         LET derived == generate_wallet_from_mnemonic(seed_words)
             stored == store_wallet(keychain, SecureWalletData(seed_words, SystemTime_now), access_ok)
         IN IF IsOk(derived) /\ IsOk(stored.result)
            THEN /\ keychain' = stored.entry
                 /\ wallet_data' = [private_key |-> Some(derived[2][1]),
                                    address |-> Some(derived[2][2]),
                                    mnemonic |-> Some(seed_words)]
                 /\ buttons' = {}
            ELSE /\ keychain' = IF IsOk(derived) THEN stored.entry ELSE keychain
                 /\ wallet_data' = wallet_data
                 /\ buttons' = IF IsOk(derived)
                               THEN {}
                               ELSE {"Failed to Import Wallet"}
    /\ wallet_state_changed' = FALSE
    /\ frame' = "free"
    /\ UNCHANGED <<started, app_state, wallet_state, balance_state,
                   registration_state, async_tasks>>
    /\ UNCHANGED <<registration_state_changed, client_call, credential>>

----------------------------------------------------------------------------
(* Submitting work: the three button handlers *)

\* GalaChainClient::ethereum_to_galachain_address and
\* GalaChainClient::get_public_key_from_private, as tagged values.
ethereum_to_galachain_address(address) == <<"eth", address>>
get_public_key_from_private(private_key) == <<"pub", private_key>>

\* A faulty variant of check_submit_accepted: the guard looks at the check's
\* own flag only.
check_submit_accepted_own_flag(rs, wd) ==
    ~rs.checking /\ IsSome(wd.address)

\* A faulty variant of balance_submit_accepted: the wallet is not looked at.
balance_submit_accepted_without_wallet(bs, wd) ==
    ~bs.loading

\* Guards of the three handlers.
balance_submit_accepted(bs, wd) ==
    ~bs.loading /\ IsSome(wd.address)

check_submit_accepted(rs, wd) ==
    ~rs.checking /\ ~rs.registering /\ IsSome(wd.address)

register_submit_accepted(rs, wd) ==
    ~rs.checking /\ ~rs.registering /\ IsSome(wd.private_key)

\* wallet_balance_system, entering the Balance view, no button pressed: the
\* reset and the rebuild of the content area.
wallet_balance_system_entering ==
    /\ running
    /\ wallet_state = "Balance"
    /\ wallet_state_changed
    /\ balance_state' = enter_balance(balance_state)
    /\ buttons' = entered(render_balance(wallet_data))
    /\ wallet_state_changed' = FALSE
    /\ frame' = "free"
    /\ UNCHANGED <<started, app_state, wallet_state, wallet_data, keychain,
                   registration_state, async_tasks>>
    /\ UNCHANGED <<registration_state_changed, client_call, credential>>

\* wallet_balance_system, Refresh Balance pressed.
wallet_balance_system ==
    /\ running
    /\ wallet_state = "Balance"
    /\ "RefreshBalance" \in buttons
    /\ LET bs == IF wallet_state_changed
                 THEN enter_balance(balance_state)
                 ELSE balance_state
       IN IF balance_submit_accepted(bs, wallet_data)
          THEN /\ balance_state' = [bs EXCEPT !.loading = TRUE, !.error = None]
               /\ async_tasks' = [async_tasks EXCEPT !.balance_task =
                     spawn(@, ethereum_to_galachain_address(Unwrap(wallet_data.address)))]
          ELSE /\ balance_state' = bs
               /\ UNCHANGED async_tasks
    /\ buttons' = entered(render_balance(wallet_data))
    /\ wallet_state_changed' = FALSE
    /\ frame' = "free"
    /\ UNCHANGED <<started, app_state, wallet_state, wallet_data,
                   keychain, registration_state>>
    /\ UNCHANGED <<registration_state_changed, client_call, credential>>

\* A run of wallet_registration_ui_system first looks at
\* wallet_state.is_changed() and registration_state.is_changed(): on
\* entering it resets the record, and on either it queues the rebuild of the
\* content area from the record as it is then.  The queued commands are
\* applied after the run, so the handlers further down in the same run still
\* see the buttons that were on screen and the press of that frame.  The
\* system's own writes do not count as a change at its next run.
entered_registration(rs) ==
    IF wallet_state_changed THEN enter_registration(rs) ELSE rs

rebuilt(wd, rs) ==
    IF unseen /\ content_area
    THEN render_registration(wd, entered_registration(rs))
    ELSE buttons

\* wallet_registration_ui_system, Check Registration pressed.
wallet_registration_ui_system_check ==
    /\ running
    /\ wallet_state = "Registration"
    /\ "CheckRegistration" \in buttons
    /\ LET rs == entered_registration(registration_state)
       IN IF check_submit_accepted(rs, wallet_data)
          THEN /\ registration_state' = [rs EXCEPT
                     !.checking = TRUE, !.error = None, !.is_registered = None]
               /\ async_tasks' = [async_tasks EXCEPT !.registration_check_task =
                     spawn(@, ethereum_to_galachain_address(Unwrap(wallet_data.address)))]
          ELSE /\ registration_state' = rs
               /\ UNCHANGED async_tasks
    /\ buttons' = rebuilt(wallet_data, registration_state)
    /\ wallet_state_changed' = FALSE
    /\ registration_state_changed' = FALSE
    /\ frame' = "free"
    /\ UNCHANGED <<started, app_state, wallet_state, wallet_data,
                   keychain, balance_state>>
    /\ UNCHANGED <<client_call, credential>>

\* wallet_registration_ui_system, Register Identity pressed.
wallet_registration_ui_system_register ==
    /\ running
    /\ wallet_state = "Registration"
    /\ "RegisterIdentity" \in buttons
    /\ LET rs == entered_registration(registration_state)
       IN IF register_submit_accepted(rs, wallet_data)
          THEN /\ registration_state' = [rs EXCEPT
                     !.registering = TRUE, !.error = None]
               /\ async_tasks' = [async_tasks EXCEPT !.registration_task =
                     spawn(@, get_public_key_from_private(Unwrap(wallet_data.private_key)))]
          ELSE /\ registration_state' = rs
               /\ UNCHANGED async_tasks
    /\ buttons' = rebuilt(wallet_data, registration_state)
    /\ wallet_state_changed' = FALSE
    /\ registration_state_changed' = FALSE
    /\ frame' = "free"
    /\ UNCHANGED <<started, app_state, wallet_state, wallet_data,
                   keychain, balance_state>>
    /\ UNCHANGED <<client_call, credential>>

\* wallet_registration_ui_system, no button pressed: the run that enters the
\* view or sees the write of async_task_polling_system.
wallet_registration_ui_system ==
    /\ running
    /\ wallet_state = "Registration"
    /\ unseen
    /\ registration_state' = entered_registration(registration_state)
    /\ buttons' = rebuilt(wallet_data, registration_state)
    /\ wallet_state_changed' = FALSE
    /\ registration_state_changed' = FALSE
    /\ frame' = "free"
    /\ UNCHANGED <<started, app_state, wallet_state, wallet_data, keychain,
                   balance_state, async_tasks>>
    /\ UNCHANGED <<client_call, credential>>

----------------------------------------------------------------------------
(* Worker pool: a spawned closure runs to its return value *)

Attempts(outcomes, max_retries) == [1..(max_retries + 1) -> outcomes]

\* What the closure of each task can return: the result of the blocking call
\* over every course its attempts can take.
BalanceResults ==
    {get_gala_balance_blocking(operation) :
        operation \in Attempts(BalanceAttempts, get_gala_balance_max_retries)}
CheckResults ==
    {check_registration_blocking(operation) :
        operation \in Attempts(CheckAttempts, check_registration_max_retries)}
RegisterResults ==
    {register_user_blocking(operation) :
        operation \in Attempts(RegisterAttempts, register_user_max_retries)}

finish(slot, result) == Some([Unwrap(slot) EXCEPT !.result = Some(result)])

Running(slot) == IsSome(slot) /\ Unwrap(slot).result = None
Finished(slot) == IsSome(slot) /\ IsSome(Unwrap(slot).result)

io_task_balance ==
    /\ running
    /\ Running(async_tasks.balance_task)
    /\ \E result \in BalanceResults :
         async_tasks' = [async_tasks EXCEPT !.balance_task = finish(@, result)]
    /\ UNCHANGED <<started, app_state, wallet_state, buttons, wallet_data,
                   keychain, balance_state, registration_state>>
    /\ UNCHANGED <<wallet_state_changed, registration_state_changed, frame>>
    /\ UNCHANGED <<client_call, credential>>

io_task_registration_check ==
    /\ running
    /\ Running(async_tasks.registration_check_task)
    /\ \E result \in CheckResults :
         async_tasks' = [async_tasks EXCEPT !.registration_check_task =
            finish(@, result)]
    /\ UNCHANGED <<started, app_state, wallet_state, buttons, wallet_data,
                   keychain, balance_state, registration_state>>
    /\ UNCHANGED <<wallet_state_changed, registration_state_changed, frame>>
    /\ UNCHANGED <<client_call, credential>>

io_task_registration ==
    /\ running
    /\ Running(async_tasks.registration_task)
    /\ \E result \in RegisterResults :
         async_tasks' = [async_tasks EXCEPT !.registration_task =
            finish(@, result)]
    /\ UNCHANGED <<started, app_state, wallet_state, buttons, wallet_data,
                   keychain, balance_state, registration_state>>
    /\ UNCHANGED <<wallet_state_changed, registration_state_changed, frame>>
    /\ UNCHANGED <<client_call, credential>>

----------------------------------------------------------------------------
(* async_task_polling_system *)

\* block_on(poll_once(task)): Some(result) if the task has finished.
poll_once(slot) == IF Finished(slot) THEN Unwrap(slot).result ELSE None

\* A faulty variant of poll_registration_task: a failed registration leaves
\* the registering flag set.
poll_registration_task_keeps_flag(tasks, rs, now) ==
    LET polled == poll_once(tasks.registration_task) IN
    IF IsSome(polled)
    THEN [tasks |-> [tasks EXCEPT !.registration_task = None],
          state |-> IF IsOk(Unwrap(polled))
                    THEN [rs EXCEPT !.registering = FALSE,
                                    !.is_registered = Some(TRUE),
                                    !.last_checked = Some(now),
                                    !.error = None]
                    ELSE [rs EXCEPT !.error = Some(Unwrap(polled)[2])]]
    ELSE [tasks |-> tasks, state |-> rs]

\* The three blocks of the system, in source order.  Each maps the slots and
\* the status record to their values after the block.
poll_balance_task(tasks, bs, now) ==
    LET polled == poll_once(tasks.balance_task) IN
    IF IsSome(polled)
    THEN [tasks |-> [tasks EXCEPT !.balance_task = None],
          state |-> IF IsOk(Unwrap(polled))
                    THEN [bs EXCEPT !.loading = FALSE,
                                    !.available = Unwrap(polled)[2][1],
                                    !.locked = Unwrap(polled)[2][2],
                                    !.last_updated = Some(now),
                                    !.error = None]
                    ELSE [bs EXCEPT !.loading = FALSE,
                                    !.error = Some(Unwrap(polled)[2])]]
    ELSE [tasks |-> tasks, state |-> bs]

poll_registration_check_task(tasks, rs, now) ==
    LET polled == poll_once(tasks.registration_check_task) IN
    IF IsSome(polled)
    THEN [tasks |-> [tasks EXCEPT !.registration_check_task = None],
          state |-> IF IsOk(Unwrap(polled))
                    THEN [rs EXCEPT !.checking = FALSE,
                                    !.is_registered = Some(Unwrap(polled)[2]),
                                    !.last_checked = Some(now),
                                    !.error = None]
                    ELSE [rs EXCEPT !.checking = FALSE,
                                    !.error = Some(Unwrap(polled)[2])]]
    ELSE [tasks |-> tasks, state |-> rs]

poll_registration_task(tasks, rs, now) ==
    LET polled == poll_once(tasks.registration_task) IN
    IF IsSome(polled)
    THEN [tasks |-> [tasks EXCEPT !.registration_task = None],
          state |-> IF IsOk(Unwrap(polled))
                    THEN [rs EXCEPT !.registering = FALSE,
                                    !.is_registered = Some(TRUE),
                                    !.last_checked = Some(now),
                                    !.error = None]
                    ELSE [rs EXCEPT !.registering = FALSE,
                                    !.error = Some(Unwrap(polled)[2])]]
    ELSE [tasks |-> tasks, state |-> rs]

\* One run of the system.  A write to RegistrationState is what
\* wallet_registration_ui_system, when the Registration view is the wallet
\* state and the run is not an entering one anyway, sees as
\* registration_state.is_changed() at its next run.
async_task_polling_system ==
    /\ running
    /\ frame \in {"free", "start"}
    /\ LET b == poll_balance_task(async_tasks, balance_state, SystemTime_now)
           c == poll_registration_check_task(b.tasks, registration_state, SystemTime_now)
           r == poll_registration_task(c.tasks, c.state, SystemTime_now)
           wrote == Finished(async_tasks.registration_check_task)
                    \/ Finished(async_tasks.registration_task)
           changed == \/ registration_state_changed
                      \/ /\ wrote
                         /\ wallet_state = "Registration"
                         /\ ~wallet_state_changed
       IN /\ async_tasks' = r.tasks
          /\ balance_state' = b.state
          /\ registration_state' = r.state
          /\ registration_state_changed' = changed
          /\ frame' = IF unseen THEN "polled" ELSE "free"
    /\ UNCHANGED <<started, app_state, wallet_state, buttons, wallet_data,
                   keychain, wallet_state_changed>>
    /\ UNCHANGED <<client_call, credential>>

----------------------------------------------------------------------------
(* Specification *)

Next ==
    \/ load_wallet_from_keychain
    \/ \E action \in MainMenuAction : main_menu_system(action)
    \/ back_button_system
    \/ \E action \in WalletState : wallet_menu_system(action)
    \/ wallet_overview_system
    \/ wallet_generate_system_entering
    \/ wallet_generate_system
    \/ wallet_import_system_entering
    \/ \E seed_words \in Phrases : wallet_import_system(seed_words)
    \/ wallet_balance_system_entering
    \/ wallet_balance_system
    \/ wallet_registration_ui_system_check
    \/ wallet_registration_ui_system_register
    \/ wallet_registration_ui_system
    \/ io_task_balance
    \/ io_task_registration_check
    \/ io_task_registration
    \/ async_task_polling_system

Spec == Init /\ [][Next]_vars

\* The worker pool runs the task of an occupied slot to its return value and
\* the Update schedule runs async_task_polling_system and the view system of
\* the wallet state in every frame.
FairSpec ==
    /\ Spec
    /\ WF_vars(io_task_balance)
    /\ WF_vars(io_task_registration_check)
    /\ WF_vars(io_task_registration)
    /\ WF_vars(async_task_polling_system)
    /\ WF_vars(wallet_overview_system)
    /\ WF_vars(wallet_generate_system_entering)
    /\ WF_vars(wallet_import_system_entering)
    /\ WF_vars(wallet_balance_system_entering)
    /\ WF_vars(wallet_registration_ui_system)

----------------------------------------------------------------------------
(* Chain client: one HTTP exchange and what each request method makes of it *)

MaxHolds == 2       \* locked holds in a balance record

\* What one send() and response.text() can give.  `transport` is "sent" when
\* a response arrived and names the reqwest error otherwise.  A body is
\* described by what the code asks of it: whether serde_json decodes it as the
\* method's response type, which "user unknown" phrasing its text contains,
\* and the decoded Status and Data fields.
StatusCodes == {200, 201, 400, 404, 500}
Transports == {"sent", "timeout", "connect", "other"}
Phrasings == {"", "not found", "does not exist"}
StatusValues == {0, 1, 2}
QuantityValues == {0, 30, 100}

\* StatusCode::is_success
is_success(status_code) == status_code >= 200 /\ status_code <= 299

\* The text of a numeric field: a decimal number, or text f64 cannot parse.
QuantityTexts == {<<"num", n>> : n \in QuantityValues} \cup {<<"bad", 0>>}

\* str::parse::<f64>
parse_f64(text) ==
    IF text[1] = "num" THEN Ok(text[2]) ELSE Err("invalid float literal")

HoldLists == UNION {[1..n -> [quantity : QuantityTexts]] : n \in 0..MaxHolds}

TokenBalances == [quantity : QuantityTexts, lockedHolds : HoldLists]

no_response_body == [decodes |-> FALSE, phrase |-> "", Status |-> 0, Data |-> None]

PublicKeyData == [publicKey |-> "04..", signing |-> "secp256k1"]

\* A body that does not decode has no Status and no Data.
CheckBodies ==
    [decodes : {TRUE}, phrase : Phrasings, Status : StatusValues,
     Data : {None, Some(PublicKeyData)}]
      \cup [decodes : {FALSE}, phrase : Phrasings, Status : {0}, Data : {None}]

RegisterBodies ==
    [decodes : {FALSE}, phrase : Phrasings, Status : {0}, Data : {None}]

\* The Data list of a balance response is empty or holds one record.
BalanceBodies ==
    [decodes : {TRUE}, phrase : {""}, Status : {1},
     Data : {<<>>} \cup {<<balance>> : balance \in TokenBalances}]
      \cup [decodes : {FALSE}, phrase : {""}, Status : {0}, Data : {None}]

Methods == {"check_registration", "register_user", "get_gala_balance"}

Bodies(method) ==
    CASE method = "check_registration" -> CheckBodies
      [] method = "register_user" -> RegisterBodies
      [] method = "get_gala_balance" -> BalanceBodies

\* With an error status the server sends text that is not of the method's
\* response type; no method decodes the body of such a response.
Responses(method) ==
    [transport : {"sent"}, status : {c \in StatusCodes : is_success(c)},
     body : Bodies(method)]
      \cup [transport : {"sent"}, status : {c \in StatusCodes : ~is_success(c)},
            body : {b \in Bodies(method) : ~b.decodes}]
      \cup [transport : Transports \ {"sent"}, status : {0},
            body : {no_response_body}]

\* GalaChainError values: <<variant, message>>.
Network(msg) == <<"Network", msg>>
Parse(msg) == <<"Parse", msg>>
Api(msg) == <<"Api", msg>>

\* .send().await.map_err(..) of check_registration_async and
\* register_user_async.
send_error(transport) ==
    IF transport = "timeout" THEN Network("Request timeout")
    ELSE IF transport = "connect" THEN Network("Connection failed")
    ELSE Network("other")

\* .send().await.map_err(..) of get_gala_balance_async.
send_error_balance(transport) ==
    IF transport = "timeout" THEN Network("Balance request timeout")
    ELSE IF transport = "connect" THEN Network("Failed to connect to identity API")
    ELSE Network("other")


\* The closure check_registration_async hands to retry_request: one attempt.
check_registration_operation(response) ==
    IF response.transport # "sent"
    THEN Err(send_error(response.transport))
    ELSE IF is_success(response.status)
    THEN IF ~response.body.decodes
         THEN Err(Parse("Failed to parse GetPublicKey response"))
         ELSE IF response.body.Status = 1 /\ IsSome(response.body.Data)
              THEN Ok(TRUE)
              ELSE Ok(FALSE)
    ELSE IF response.status = 404
    THEN Ok(FALSE)
    ELSE IF \/ response.body.phrase = "not found"
            \/ response.body.phrase = "does not exist"
            \/ response.status = 400
         THEN Ok(FALSE)
         ELSE Err(Api(<<"Registration check failed with status",
                        response.status, response.body>>))

\* A faulty variant of register_user_operation: only 200 counts as success.
register_user_operation_only_200(response) ==
    IF response.transport # "sent"
    THEN Err(send_error(response.transport))
    ELSE IF response.status = 200
    THEN Ok("unit")
    ELSE Err(Api(<<"Registration failed with status",
                   response.status, response.body>>))

\* The closure register_user_async hands to retry_request: one attempt.
register_user_operation(response) ==
    IF response.transport # "sent"
    THEN Err(send_error(response.transport))
    ELSE IF is_success(response.status)
    THEN Ok("unit")
    ELSE Err(Api(<<"Registration failed with status",
                   response.status, response.body>>))

\* A faulty variant of sum_locked_holds: only the first hold is counted.
sum_locked_holds_first_only(locked_holds) ==
    IF locked_holds = <<>>
    THEN 0
    ELSE LET parsed == parse_f64(locked_holds[1].quantity) IN
         IF IsOk(parsed) THEN parsed[2] ELSE 0

\* balance.locked_holds.iter().map(|hold| ..parse::<f64>().unwrap_or(0.0)).sum()
RECURSIVE sum_locked_holds(_)
sum_locked_holds(locked_holds) ==
    IF locked_holds = <<>>
    THEN 0
    ELSE LET parsed == parse_f64(locked_holds[1].quantity) IN
         (IF IsOk(parsed) THEN parsed[2] ELSE 0)
           + sum_locked_holds(Tail(locked_holds))

\* The closure get_gala_balance_async hands to retry_request: one attempt.
get_gala_balance_operation(response) ==
    IF response.transport # "sent"
    THEN Err(send_error_balance(response.transport))
    ELSE IF ~is_success(response.status)
    THEN Err(Api(<<"Balance request failed with status",
                   response.status, response.body>>))
    ELSE IF ~response.body.decodes
    THEN Err(Parse("Failed to parse balance response"))
    ELSE IF response.body.Data # <<>>
    THEN LET balance == response.body.Data[1]
             total == parse_f64(balance.quantity)
             locked == sum_locked_holds(balance.lockedHolds)
         IN IF IsOk(total)
            THEN Ok(<<total[2] - locked, locked>>)
            ELSE Err(Parse("Invalid balance quantity"))
    ELSE Ok(<<0, 0>>)

operation(method, response) ==
    CASE method = "check_registration" -> check_registration_operation(response)
      [] method = "register_user" -> register_user_operation(response)
      [] method = "get_gala_balance" -> get_gala_balance_operation(response)

\* A faulty variant of max_retries: every method retries three times.
max_retries_same_for_all(method) == register_user_max_retries

max_retries(method) ==
    CASE method = "check_registration" -> check_registration_max_retries
      [] method = "register_user" -> register_user_max_retries
      [] method = "get_gala_balance" -> get_gala_balance_max_retries

----------------------------------------------------------------------------
(* Chain client: retry_request, one loop iteration per step *)

\* A call that has just entered retry_request.  `attempt` is the loop
\* variable, `attempts` counts the calls of operation() and `failures` those
\* that returned Err; `response` is the latest exchange and `outcome` what
\* operation() made of it, `slept` the delays slept so far in ms, `returned`
\* the value of the call once it is over.
call(method) ==
    [method |-> method, attempt |-> 0, attempts |-> 0, failures |-> 0,
     response |-> None, outcome |-> None, last_error |-> None,
     slept |-> <<>>, returned |-> None]

\* A faulty variant of retry_request_attempt: the loop gives up one attempt
\* early.
retry_request_attempt_gives_up_early(response) ==
    /\ client_call # None
    /\ client_call.returned = None
    /\ client_call.attempt <= max_retries(client_call.method)
    /\ LET result == operation(client_call.method, response) IN
       client_call' =
         IF IsOk(result)
         THEN [client_call EXCEPT !.attempts = @ + 1,
                                  !.response = Some(response),
                                  !.outcome = Some(result),
                                  !.returned = Some(result)]
         ELSE IF client_call.attempt + 1 < max_retries(client_call.method)
         THEN [client_call EXCEPT !.attempts = @ + 1,
                                  !.failures = @ + 1,
                                  !.response = Some(response),
                                  !.outcome = Some(result),
                                  !.last_error = Some(result[2]),
                                  !.slept = Append(@, 1000 * (2 ^ client_call.attempt)),
                                  !.attempt = @ + 1]
         ELSE [client_call EXCEPT !.attempts = @ + 1,
                                  !.failures = @ + 1,
                                  !.response = Some(response),
                                  !.outcome = Some(result),
                                  !.last_error = Some(result[2]),
                                  !.attempt = @ + 1,
                                  !.returned = Some(Err(result[2]))]
    /\ UNCHANGED <<app_vars, credential>>

\* One iteration of `for attempt in 0..=max_retries`, the exchange giving
\* `response`.
\* A faulty variant of retry_request_attempt: every wait is one second.
retry_request_attempt_fixed_delay(response) ==
    /\ client_call # None
    /\ client_call.returned = None
    /\ client_call.attempt <= max_retries(client_call.method)
    /\ LET result == operation(client_call.method, response) IN
       client_call' =
         IF IsOk(result)
         THEN [client_call EXCEPT !.attempts = @ + 1,
                                  !.response = Some(response),
                                  !.outcome = Some(result),
                                  !.returned = Some(result)]
         ELSE IF client_call.attempt < max_retries(client_call.method)
         THEN [client_call EXCEPT !.attempts = @ + 1,
                                  !.failures = @ + 1,
                                  !.response = Some(response),
                                  !.outcome = Some(result),
                                  !.last_error = Some(result[2]),
                                  !.slept = Append(@, 1000),
                                  !.attempt = @ + 1]
         ELSE [client_call EXCEPT !.attempts = @ + 1,
                                  !.failures = @ + 1,
                                  !.response = Some(response),
                                  !.outcome = Some(result),
                                  !.last_error = Some(result[2]),
                                  !.attempt = @ + 1,
                                  !.returned = Some(Err(result[2]))]
    /\ UNCHANGED <<app_vars, credential>>

retry_request_attempt(response) ==
    /\ client_call # None
    /\ client_call.returned = None
    /\ client_call.attempt <= max_retries(client_call.method)
    /\ LET result == operation(client_call.method, response) IN
       client_call' =
         IF IsOk(result)
         THEN [client_call EXCEPT !.attempts = @ + 1,
                                  !.response = Some(response),
                                  !.outcome = Some(result),
                                  !.returned = Some(result)]
         ELSE IF client_call.attempt < max_retries(client_call.method)
         THEN [client_call EXCEPT !.attempts = @ + 1,
                                  !.failures = @ + 1,
                                  !.response = Some(response),
                                  !.outcome = Some(result),
                                  !.last_error = Some(result[2]),
                                  !.slept = Append(@, 1000 * (2 ^ client_call.attempt)),
                                  !.attempt = @ + 1]
         ELSE [client_call EXCEPT !.attempts = @ + 1,
                                  !.failures = @ + 1,
                                  !.response = Some(response),
                                  !.outcome = Some(result),
                                  !.last_error = Some(result[2]),
                                  !.attempt = @ + 1,
                                  !.returned = Some(Err(result[2]))]
    /\ UNCHANGED <<app_vars, credential>>

\* The application at rest, with no wallet: the state the client and
\* keychain specifications leave the application's resources in.
app_at_rest ==
    /\ started = FALSE
    /\ app_state = "MainMenu"
    /\ wallet_state = "Overview"
    /\ buttons = {}
    /\ wallet_data = WalletData_default
    /\ keychain = None
    /\ balance_state = BalanceState_default
    /\ registration_state = RegistrationState_default
    /\ async_tasks = AsyncTasks_default
    /\ wallet_state_changed = FALSE
    /\ registration_state_changed = FALSE
    /\ frame = "free"

ClientInit ==
    /\ app_at_rest
    /\ client_call \in {call(method) : method \in Methods}
    /\ credential = None

ClientNext ==
    \E response \in Responses(client_call.method) :
        retry_request_attempt(response)

ClientSpec == ClientInit /\ [][ClientNext]_vars

----------------------------------------------------------------------------
(* Properties: single-slot discipline (C1, C2, C3) *)

\* C1: pressing Refresh Balance while a task occupies
\* AsyncTasks.balance_task is a no-op in every reachable state: the slot and
\* the balance status record are left as they were, no new task is started.
C1_RefreshWhileOccupiedIsNoOp ==
    [][(wallet_balance_system /\ IsSome(async_tasks.balance_task))
         => UNCHANGED <<async_tasks, balance_state>>]_vars

\* C2: pressing Check Registration while a task occupies
\* AsyncTasks.registration_check_task, or Register Identity while a task
\* occupies AsyncTasks.registration_task, is rejected in every reachable
\* state: the slots and the registration status record are left as they were.
C2_SubmitWhileOccupiedIsRejected ==
    [][/\ (wallet_registration_ui_system_check
             /\ IsSome(async_tasks.registration_check_task))
            => UNCHANGED <<async_tasks, registration_state>>
       /\ (wallet_registration_ui_system_register
             /\ IsSome(async_tasks.registration_task))
            => UNCHANGED <<async_tasks, registration_state>>]_vars

\* C3: a task in a slot is only ever changed by its worker finishing it, and
\* only ever removed by a run of async_task_polling_system that finds it
\* finished; no other step replaces or removes the content of an occupied
\* slot.
C3_TaskRunsAndIsObservedOnce ==
    [][/\ (IsSome(async_tasks.balance_task)
             /\ async_tasks'.balance_task # async_tasks.balance_task)
            => \/ io_task_balance
               \/ /\ async_task_polling_system
                  /\ Finished(async_tasks.balance_task)
                  /\ async_tasks'.balance_task = None
       /\ (IsSome(async_tasks.registration_check_task)
             /\ async_tasks'.registration_check_task
                  # async_tasks.registration_check_task)
            => \/ io_task_registration_check
               \/ /\ async_task_polling_system
                  /\ Finished(async_tasks.registration_check_task)
                  /\ async_tasks'.registration_check_task = None
       /\ (IsSome(async_tasks.registration_task)
             /\ async_tasks'.registration_task # async_tasks.registration_task)
            => \/ io_task_registration
               \/ /\ async_task_polling_system
                  /\ Finished(async_tasks.registration_task)
                  /\ async_tasks'.registration_task = None]_vars

----------------------------------------------------------------------------
(* Properties: registration reconciliation (C4 .. C8) *)

\* C4: every step that changes WalletData.address leaves the registration
\* status Unknown: is_registered = None, checking = FALSE, registering =
\* FALSE and error = None.
C4_AddressChangeResetsStatus ==
    [][wallet_data'.address # wallet_data.address
         => /\ registration_state'.is_registered = None
            /\ registration_state'.checking = FALSE
            /\ registration_state'.registering = FALSE
            /\ registration_state'.error = None]_vars

\* C5: the status NotRegistered (the last check answered FALSE, nothing in
\* progress) with a private key in WalletData always leads to a registration
\* in progress with its slot occupied; no user action is needed for it, a
\* user can only get ahead of it by starting a new check or by making the
\* program exit.
C5_NotRegisteredLeadsToRegistering ==
    (/\ registration_state.is_registered = Some(FALSE)
     /\ ~registration_state.checking
     /\ ~registration_state.registering
     /\ IsSome(wallet_data.private_key))
      ~> \/ (registration_state.registering
               /\ IsSome(async_tasks.registration_task))
         \/ registration_state.checking
         \/ frame = "exit"

\* A press of the Check Registration / Register Identity button is accepted
\* when the handler starts a task, i.e. takes a step that changes the state.
check_press_accepted ==
    ENABLED (wallet_registration_ui_system_check
               /\ registration_state' # registration_state)

register_press_accepted ==
    ENABLED (wallet_registration_ui_system_register
               /\ registration_state' # registration_state)

\* C6 (as stated): with the button on screen, a check is accepted whenever an
\* address exists and the check slot is free, and a register whenever a
\* private key exists and the registration slot is free, whatever the other
\* slot holds.
C6_AcceptedWheneverOwnSlotFree ==
    /\ (/\ wallet_state = "Registration"
        /\ "CheckRegistration" \in buttons
        /\ IsSome(wallet_data.address)
        /\ async_tasks.registration_check_task = None)
         => check_press_accepted
    /\ (/\ wallet_state = "Registration"
        /\ "RegisterIdentity" \in buttons
        /\ IsSome(wallet_data.private_key)
        /\ async_tasks.registration_task = None)
         => register_press_accepted

\* C6 (amended): with the button on screen, a check is accepted exactly when
\* an address exists and neither checking nor registering is set, and a
\* register exactly when a private key exists and neither checking nor
\* registering is set: each press is refused while the other operation is
\* marked in progress.
C6_AcceptedIffNeitherInProgress ==
    /\ (wallet_state = "Registration" /\ "CheckRegistration" \in buttons)
         => (check_press_accepted
               <=> /\ IsSome(wallet_data.address)
                   /\ ~registration_state.checking
                   /\ ~registration_state.registering)
    /\ (wallet_state = "Registration" /\ "RegisterIdentity" \in buttons)
         => (register_press_accepted
               <=> /\ IsSome(wallet_data.private_key)
                   /\ ~registration_state.checking
                   /\ ~registration_state.registering)

\* C6 witness: the Check button is on screen, an address exists and the check
\* slot is free, while a registration is in progress in the other slot.
C6_Witness ==
    /\ wallet_state = "Registration"
    /\ "CheckRegistration" \in buttons
    /\ IsSome(wallet_data.address)
    /\ async_tasks.registration_check_task = None
    /\ registration_state.registering
    /\ Running(async_tasks.registration_task)

\* C7: a run of async_task_polling_system that finds the check task finished
\* with Ok(b) leaves checking = FALSE, is_registered = Some(b), error = None
\* and the check slot empty.
C7_CheckCompletion ==
    [][(/\ async_task_polling_system
        /\ Finished(async_tasks.registration_check_task)
        /\ IsOk(Unwrap(poll_once(async_tasks.registration_check_task))))
         => /\ registration_state'.checking = FALSE
            /\ registration_state'.is_registered =
                 Some(Unwrap(poll_once(async_tasks.registration_check_task))[2])
            /\ registration_state'.error = None
            /\ async_tasks'.registration_check_task = None]_vars

\* What C8 says of one run of async_task_polling_system that finds the
\* registration task finished, and of the steps around it: the task's result
\* is written (success: Registered; failure: Failed(reason)), registering is
\* cleared and the slot emptied; only a Register Identity press puts a task in
\* the registration slot; an accepted check clears the error and sets
\* Checking.
register_completion_effects ==
    /\ (Finished(async_tasks.registration_task) /\ async_task_polling_system)
         => LET res == Unwrap(poll_once(async_tasks.registration_task)) IN
            /\ registration_state'.registering = FALSE
            /\ async_tasks'.registration_task = None
            /\ IsOk(res) => /\ registration_state'.is_registered = Some(TRUE)
                            /\ registration_state'.error = None
            /\ ~IsOk(res) => registration_state'.error = Some(res[2])
    /\ (/\ async_tasks'.registration_task # async_tasks.registration_task
        /\ Running(async_tasks'.registration_task))
         => wallet_registration_ui_system_register
    /\ (registration_state' # registration_state
          /\ wallet_registration_ui_system_check)
         => /\ registration_state'.error = None
            /\ registration_state'.checking
            /\ registration_state'.is_registered = None
            /\ Running(async_tasks'.registration_check_task)

\* C8 (as stated): the effects above, and the error of a failed registration
\* stays in the record until a check is submitted.
C8_FailedUntilExplicitCheck ==
    [][/\ register_completion_effects
       /\ (/\ registration_state.error = Some("Registration failed")
           /\ registration_state'.error # registration_state.error)
            => wallet_registration_ui_system_check]_vars

\* C8 (amended): the effects above, and the error of a failed registration
\* stays in the record until wallet_registration_ui_system runs on entering
\* the Registration view, a Check or a Register press is accepted, or a later
\* completion is polled.
C8_FailedUntilNextWrite ==
    [][/\ register_completion_effects
       /\ (/\ registration_state.error = Some("Registration failed")
           /\ registration_state'.error # registration_state.error)
            => \/ (wallet_registration_ui_system /\ wallet_state_changed)
               \/ wallet_registration_ui_system_check
               \/ wallet_registration_ui_system_register
               \/ (async_task_polling_system
                     /\ (Finished(async_tasks.registration_check_task)
                           \/ Finished(async_tasks.registration_task)))]_vars

\* C8 witness: a registration has failed and has been polled: the record
\* shows Failed(reason), nothing is in progress, the slot is empty.
C8_Witness ==
    /\ registration_state.error = Some("Registration failed")
    /\ ~registration_state.registering
    /\ ~registration_state.checking
    /\ async_tasks.registration_task = None
    /\ async_tasks.registration_check_task = None

----------------------------------------------------------------------------
(* Properties: the polling step (C9, C10) *)

\* C9: in one run of async_task_polling_system, for each of the three
\* slots: a slot whose task has not finished keeps its task, its flag keeps
\* its value and the status record of the slot is left as it was; a slot
\* whose task has finished is emptied, its flag is cleared and the task's
\* result stands in the status record after that same run (the values of an
\* Ok, the message of an Err).
C9_PollStep ==
    [][async_task_polling_system =>
        /\ Running(async_tasks.balance_task)
             => /\ async_tasks'.balance_task = async_tasks.balance_task
                /\ balance_state' = balance_state
        /\ Finished(async_tasks.balance_task)
             => LET res == Unwrap(poll_once(async_tasks.balance_task)) IN
                /\ async_tasks'.balance_task = None
                /\ balance_state'.loading = FALSE
                /\ IF IsOk(res)
                   THEN /\ balance_state'.available = res[2][1]
                        /\ balance_state'.locked = res[2][2]
                        /\ balance_state'.last_updated = Some(SystemTime_now)
                        /\ balance_state'.error = None
                   ELSE balance_state'.error = Some(res[2])
        /\ Running(async_tasks.registration_check_task)
             => /\ async_tasks'.registration_check_task
                     = async_tasks.registration_check_task
                /\ registration_state' = registration_state
        /\ Finished(async_tasks.registration_check_task)
             => LET res == Unwrap(poll_once(async_tasks.registration_check_task)) IN
                /\ async_tasks'.registration_check_task = None
                /\ registration_state'.checking = FALSE
                /\ IF IsOk(res)
                   THEN /\ registration_state'.is_registered = Some(res[2])
                        /\ registration_state'.last_checked = Some(SystemTime_now)
                        /\ registration_state'.error = None
                   ELSE registration_state'.error = Some(res[2])
        /\ Running(async_tasks.registration_task)
             => /\ async_tasks'.registration_task = async_tasks.registration_task
                /\ registration_state' = registration_state
        /\ Finished(async_tasks.registration_task)
             => LET res == Unwrap(poll_once(async_tasks.registration_task)) IN
                /\ async_tasks'.registration_task = None
                /\ registration_state'.registering = FALSE
                /\ IF IsOk(res)
                   THEN /\ registration_state'.is_registered = Some(TRUE)
                        /\ registration_state'.last_checked = Some(SystemTime_now)
                        /\ registration_state'.error = None
                   ELSE registration_state'.error = Some(res[2])]_vars

\* C10: in a program that is not made to exit, whenever loading, checking or
\* registering is true it is eventually false, and whenever a slot is
\* occupied it is eventually empty.
C10_EverySubmissionTerminates ==
    /\ balance_state.loading ~> (~balance_state.loading \/ frame = "exit")
    /\ registration_state.checking
         ~> (~registration_state.checking \/ frame = "exit")
    /\ registration_state.registering
         ~> (~registration_state.registering \/ frame = "exit")
    /\ IsSome(async_tasks.balance_task)
         ~> (async_tasks.balance_task = None \/ frame = "exit")
    /\ IsSome(async_tasks.registration_check_task)
         ~> (async_tasks.registration_check_task = None \/ frame = "exit")
    /\ IsSome(async_tasks.registration_task)
         ~> (async_tasks.registration_task = None \/ frame = "exit")

----------------------------------------------------------------------------
(* Properties: retry policy (C11, C12, C13) *)

\* C11: in every call of check_registration, register and get_balance, as
\* long as no more than max_retries attempts have failed the call goes on to
\* another attempt, and when an attempt succeeds after k failures the call
\* returns that success with k + 1 attempts made and makes no further one.
C11_SuccessAfterFailures ==
    (client_call # None /\ IsSome(client_call.outcome)) =>
        IF IsOk(Unwrap(client_call.outcome))
        THEN /\ client_call.returned = client_call.outcome
             /\ client_call.attempts = client_call.failures + 1
             /\ client_call.failures <= max_retries(client_call.method)
             /\ ~ENABLED ClientNext
        ELSE client_call.failures <= max_retries(client_call.method)
               => /\ client_call.returned = None
                  /\ ENABLED ClientNext

\* C11 witness: a balance call that failed twice and then succeeded, three
\* attempts made.
C11_Witness ==
    /\ client_call # None
    /\ client_call.method = "get_gala_balance"
    /\ client_call.failures = 2
    /\ client_call.attempts = 3
    /\ client_call.returned = Some(Ok(<<70, 30>>))

\* C12: a call all of whose attempts failed is over: it has returned the
\* error of its last attempt, after max_retries + 1 attempts, and an error is
\* returned in no other case; that is 3 attempts for check_registration and 4
\* for register and get_balance.
C12_LastErrorAfterAllAttempts ==
    client_call # None =>
        /\ client_call.failures = max_retries(client_call.method) + 1
             => /\ IsSome(client_call.returned)
                /\ client_call.returned = client_call.outcome
                /\ client_call.returned = Some(Err(Unwrap(client_call.last_error)))
                /\ ~ENABLED ClientNext
        /\ (IsSome(client_call.returned) /\ ~IsOk(Unwrap(client_call.returned)))
             => /\ client_call.attempts = client_call.failures
                /\ client_call.attempts = max_retries(client_call.method) + 1
                /\ client_call.attempts =
                     IF client_call.method = "check_registration" THEN 3 ELSE 4

\* C12 witness: a registration check that has returned an error.
C12_Witness ==
    /\ client_call # None
    /\ client_call.method = "check_registration"
    /\ client_call.attempts = 3
    /\ client_call.returned = Some(Err(Network("Request timeout")))

\* C13: an attempt that ends in a Parse error ends the call: the error is
\* returned at once and no retry follows it.
C13_ParseErrorNotRetried ==
    (/\ client_call # None
     /\ IsSome(client_call.outcome)
     /\ ~IsOk(Unwrap(client_call.outcome))
     /\ Unwrap(client_call.outcome)[2][1] = "Parse")
      => client_call.returned = client_call.outcome

----------------------------------------------------------------------------
(* Properties: what each request method makes of a response (C14 .. C17) *)

\* The latest attempt of a call of `method`: its response and its result.
attempted(method) ==
    /\ client_call # None
    /\ client_call.method = method
    /\ IsSome(client_call.outcome)

latest_response == Unwrap(client_call.response)
latest_outcome == Unwrap(client_call.outcome)

contains_not_found(body) ==
    body.phrase = "not found" \/ body.phrase = "does not exist"

\* C14: an attempt of check_registration gives true exactly for a 2xx
\* response whose body decodes with Status 1 and Data present; it gives false
\* for 404, for 400, for a 2xx response with Status 1 and no Data and for
\* every other response whose body holds "not found" phrasing; every other
\* non-2xx response gives an Api error.
C14_CheckRegistrationOutcome ==
    attempted("check_registration") =>
        LET response == latest_response
            sent == response.transport = "sent"
            registered ==
                /\ sent
                /\ is_success(response.status)
                /\ response.body.decodes
                /\ response.body.Status = 1
                /\ IsSome(response.body.Data)
            not_registered ==
                /\ sent
                /\ \/ response.status = 404
                   \/ response.status = 400
                   \/ /\ is_success(response.status)
                      /\ response.body.decodes
                      /\ response.body.Status = 1
                      /\ response.body.Data = None
                   \/ contains_not_found(response.body) /\ ~registered
        IN /\ (latest_outcome = Ok(TRUE)) <=> registered
           /\ not_registered => latest_outcome = Ok(FALSE)
           /\ (sent /\ ~is_success(response.status) /\ ~not_registered)
                => /\ ~IsOk(latest_outcome)
                   /\ latest_outcome[2][1] = "Api"

\* C15: an attempt of register succeeds exactly when its response is 2xx, a
\* non-2xx response gives an Api error whose message carries the status and
\* the body, and the call returns success exactly when its final response is
\* 2xx.
C15_RegisterOutcome ==
    attempted("register_user") =>
        LET response == latest_response
            success == response.transport = "sent" /\ is_success(response.status)
        IN /\ IsOk(latest_outcome) <=> success
           /\ (response.transport = "sent" /\ ~is_success(response.status))
                => /\ latest_outcome[1] = "Err"
                   /\ latest_outcome[2][1] = "Api"
                   /\ latest_outcome[2][2][2] = response.status
                   /\ latest_outcome[2][2][3] = response.body
           /\ IsSome(client_call.returned)
                => (IsOk(Unwrap(client_call.returned)) <=> success)

\* C15 witness: a register call that has returned the Api error of a 500
\* response, and the error names 500.
C15_Witness ==
    /\ attempted("register_user")
    /\ IsSome(client_call.returned)
    /\ latest_response.status = 500
    /\ Unwrap(client_call.returned)[2][1] = "Api"
    /\ Unwrap(client_call.returned)[2][2][2] = 500

\* The sum of the quantities of a list of holds whose texts are all numbers.
RECURSIVE sum_of_quantities(_)
sum_of_quantities(holds) ==
    IF holds = <<>> THEN 0
    ELSE holds[1].quantity[2] + sum_of_quantities(Tail(holds))

well_formed(balance) ==
    /\ balance.quantity[1] = "num"
    /\ \A i \in DOMAIN balance.lockedHolds :
          balance.lockedHolds[i].quantity[1] = "num"

\* A 2xx response of FetchBalances whose body decodes.
balance_decoded ==
    /\ attempted("get_gala_balance")
    /\ latest_response.transport = "sent"
    /\ is_success(latest_response.status)
    /\ latest_response.body.decodes

\* C16: an attempt of get_balance gives (0, 0) when the Data list is empty,
\* and for one record with numeric fields gives available = quantity minus
\* the sum of the quantities of its locked holds and locked = that sum;
\* quantity 100 with one hold of 30 gives (70, 30).
C16_BalanceOfRecord ==
    balance_decoded =>
        LET Data == latest_response.body.Data IN
        /\ Data = <<>> => latest_outcome = Ok(<<0, 0>>)
        /\ (Data # <<>> /\ well_formed(Data[1]))
             => LET locked == sum_of_quantities(Data[1].lockedHolds) IN
                latest_outcome = Ok(<<Data[1].quantity[2] - locked, locked>>)
        /\ Data = <<[quantity |-> <<"num", 100>>,
                     lockedHolds |-> <<[quantity |-> <<"num", 30>>]>>]>>
             => latest_outcome = Ok(<<70, 30>>)

\* C16 witness: a record of 100 with holds of 30 and 30 gave (40, 60).
C16_Witness ==
    /\ balance_decoded
    /\ latest_response.body.Data =
         <<[quantity |-> <<"num", 100>>,
            lockedHolds |-> <<[quantity |-> <<"num", 30>>],
                              [quantity |-> <<"num", 30>>]>>]>>
    /\ latest_outcome = Ok(<<40, 60>>)

\* C17: an attempt of get_balance on a record whose quantity or any of whose
\* locked-hold quantities is not a number gives a Parse error.
C17_MalformedNumberIsParseError ==
    (/\ balance_decoded
     /\ latest_response.body.Data # <<>>
     /\ ~well_formed(latest_response.body.Data[1]))
      => /\ ~IsOk(latest_outcome)
         /\ latest_outcome[2][1] = "Parse"

----------------------------------------------------------------------------
(* Credential text: SecureWalletData::to_json and from_json, character by   *)
(* character.  A text is a sequence of one-character strings; positions are *)
(* counted from 1 where the Rust code counts bytes from 0.                  *)

MaxMnemonicLen == 2     \* characters in a mnemonic handed to to_json
MaxFields == 2          \* fields in a document handed to from_json

MnemonicChars == {"a", " ", ",", ":", "\"", "\\"}
Timestamps == {0, 12}

\* The characters with the Unicode White_Space property, which str::trim
\* strips.  A string of the language cannot hold the code points from U+2000
\* on; those are named by their number.
Whitespace ==
    {"\t", "\n", "", "\f", "\r", " ", "", " ", " ",
     "U+2000", "U+2001", "U+2002", "U+2003", "U+2004", "U+2005", "U+2006",
     "U+2007", "U+2008", "U+2009", "U+200A", "U+2028", "U+2029", "U+202F",
     "U+205F", "U+3000"}
Digits == <<"0", "1", "2", "3", "4", "5", "6", "7", "8", "9">>

\* KeychainError values.
NotFound == <<"NotFound">>
Access(msg) == <<"Access", msg>>
Deserialize(msg) == <<"Deserialize", msg>>

RECURSIVE strip_start(_, _)
strip_start(text, chars) ==
    IF text # <<>> /\ text[1] \in chars
    THEN strip_start(Tail(text), chars)
    ELSE text

RECURSIVE strip_end(_, _)
strip_end(text, chars) ==
    IF text # <<>> /\ text[Len(text)] \in chars
    THEN strip_end(SubSeq(text, 1, Len(text) - 1), chars)
    ELSE text

\* str::trim
trim(text) == strip_end(strip_start(text, Whitespace), Whitespace)

\* str::trim_matches(char): every leading and every trailing occurrence.
trim_matches(text, char) == strip_end(strip_start(text, {char}), {char})

\* str::find(char): the first position, if any.
find(text, char) ==
    IF \E i \in DOMAIN text : text[i] = char
    THEN Some(CHOOSE i \in DOMAIN text :
                /\ text[i] = char
                /\ \A j \in 1..(i - 1) : text[j] # char)
    ELSE None

\* str::split(char): the pieces between occurrences, empty pieces included.
RECURSIVE split(_, _)
split(text, char) ==
    LET pos == find(text, char) IN
    IF pos = None
    THEN <<text>>
    ELSE <<SubSeq(text, 1, Unwrap(pos) - 1)>>
           \o split(SubSeq(text, Unwrap(pos) + 1, Len(text)), char)

\* str::replace(from, to): non-overlapping occurrences, left to right.
RECURSIVE replace(_, _, _)
replace(text, from, to) ==
    IF Len(text) < Len(from)
    THEN text
    ELSE IF SubSeq(text, 1, Len(from)) = from
    THEN to \o replace(SubSeq(text, Len(from) + 1, Len(text)), from, to)
    ELSE <<text[1]>> \o replace(Tail(text), from, to)

\* Display of a u64.
RECURSIVE u64_to_string(_)
u64_to_string(n) ==
    IF n < 10
    THEN <<Digits[n + 1]>>
    ELSE u64_to_string(n \div 10) \o <<Digits[(n % 10) + 1]>>

is_digit(char) == \E d \in DOMAIN Digits : Digits[d] = char

RECURSIVE digits_value(_)
digits_value(text) ==
    IF text = <<>>
    THEN 0
    ELSE digits_value(SubSeq(text, 1, Len(text) - 1)) * 10
           + ((CHOOSE d \in DOMAIN Digits : Digits[d] = text[Len(text)]) - 1)

\* u64::MAX, 18446744073709551615, as the text of its digits.
u64_MAX == <<"1", "8", "4", "4", "6", "7", "4", "4", "0", "7",
             "3", "7", "0", "9", "5", "5", "1", "6", "1", "5">>

digit(char) == (CHOOSE d \in DOMAIN Digits : Digits[d] = char) - 1

\* Of two texts of digits of one length: the first names the larger number.
RECURSIVE digits_greater(_, _)
digits_greater(a, b) ==
    IF a = <<>>
    THEN FALSE
    ELSE IF digit(a[1]) # digit(b[1])
    THEN digit(a[1]) > digit(b[1])
    ELSE digits_greater(Tail(a), Tail(b))

\* The checked multiply-and-add of from_str overflows: the number the digits
\* name is above u64::MAX (leading zeros do not count).
pos_overflow(digits) ==
    LET significant == strip_start(digits, {"0"}) IN
    \/ Len(significant) > Len(u64_MAX)
    \/ /\ Len(significant) = Len(u64_MAX)
       /\ digits_greater(significant, u64_MAX)

\* The loop of from_str over the characters, left to right from position i:
\* a character that is no digit ends it with InvalidDigit, a value that
\* leaves u64 with PosOverflow, whichever comes first.
RECURSIVE from_str_digits(_, _)
from_str_digits(digits, i) ==
    IF i > Len(digits)
    THEN Ok(digits_value(digits))
    ELSE IF ~is_digit(digits[i])
    THEN Err("invalid digit found in string")
    ELSE IF pos_overflow(SubSeq(digits, 1, i))
    THEN Err("number too large to fit in target type")
    ELSE from_str_digits(digits, i + 1)

\* str::parse::<u64>: an optional '+', then one or more decimal digits whose
\* value fits in 64 bits.
parse_u64(text) ==
    LET digits == IF text # <<>> /\ text[1] = "+" THEN Tail(text) ELSE text IN
    IF text = <<>>
    THEN Err("cannot parse integer from empty string")
    ELSE IF digits = <<>>
    THEN Err("invalid digit found in string")
    ELSE from_str_digits(digits, 1)

mnemonic_key == <<"m", "n", "e", "m", "o", "n", "i", "c">>
created_at_key == <<"c", "r", "e", "a", "t", "e", "d", "_", "a", "t">>

\* SecureWalletData::to_json
to_json(self) ==
    Ok(<<"{", "\"">> \o mnemonic_key \o <<"\"", ":", "\"">>
         \o replace(self.mnemonic, <<"\"">>, <<"\\", "\"">>)
         \o <<"\"", ",", "\"">> \o created_at_key \o <<"\"", ":">>
         \o u64_to_string(self.created_at) \o <<"}">>)

\* The loop of from_json over the parts of the content, with the values of
\* `mnemonic` and `created_at` so far.
RECURSIVE from_json_parts(_, _, _)
from_json_parts(parts, mnemonic, created_at) ==
    IF parts = <<>>
    THEN IF mnemonic = <<>>
         THEN Err(Deserialize("Missing mnemonic"))
         ELSE Ok(SecureWalletData(mnemonic, created_at))
    ELSE LET part == trim(parts[1])
             colon_pos == find(part, ":")
         IN IF colon_pos = None
            THEN from_json_parts(Tail(parts), mnemonic, created_at)
            ELSE LET key == trim_matches(
                                trim(SubSeq(part, 1, Unwrap(colon_pos) - 1)), "\"")
                     value == trim(SubSeq(part, Unwrap(colon_pos) + 1, Len(part)))
                 IN IF key = mnemonic_key
                    THEN from_json_parts(
                             Tail(parts),
                             replace(trim_matches(value, "\""),
                                     <<"\\", "\"">>, <<"\"">>),
                             created_at)
                    ELSE IF key = created_at_key
                    THEN LET parsed == parse_u64(value) IN
                         IF IsOk(parsed)
                         THEN from_json_parts(Tail(parts), mnemonic, parsed[2])
                         ELSE Err(Deserialize("Invalid timestamp"))
                    ELSE from_json_parts(Tail(parts), mnemonic, created_at)

\* SecureWalletData::from_json
from_json(json) ==
    LET trimmed == trim(json) IN
    IF \/ trimmed = <<>>
       \/ trimmed[1] # "{"
       \/ trimmed[Len(trimmed)] # "}"
    THEN Err(Deserialize("Invalid JSON format"))
    ELSE from_json_parts(split(SubSeq(trimmed, 2, Len(trimmed) - 1), ","),
                         <<>>, 0)

\* The credentials handed to to_json: a non-empty mnemonic and a timestamp.
MnemonicTexts == UNION {[1..n -> MnemonicChars] : n \in 1..MaxMnemonicLen}
Wallets == {SecureWalletData(m, t) : m \in MnemonicTexts, t \in Timestamps}

\* The documents handed to from_json, described by their fields: a key and
\* the text of its value.  `spaced` puts blanks around the punctuation and
\* `braced` says whether the braces are there.
Fields ==
    {[key |-> mnemonic_key, value |-> <<"\"", "a", "b", "\"">>],
     [key |-> created_at_key, value |-> <<"1", "2">>],
     [key |-> created_at_key, value |-> <<"-", "1">>],
     [key |-> created_at_key, value |-> <<"\"", "5", "\"">>],
     [key |-> created_at_key, value |-> <<"x">>],
     [key |-> <<"v">>, value |-> <<"2">>],
     [key |-> <<"n", "o", "t", "e">>, value |-> <<"\"", "a", "\"">>]}

Documents ==
    [fields : UNION {[1..n -> Fields] : n \in 0..MaxFields},
     spaced : BOOLEAN, braced : BOOLEAN]

RECURSIVE render_fields(_, _)
render_fields(fields, spaced) ==
    IF fields = <<>>
    THEN <<>>
    ELSE LET blank == IF spaced THEN <<" ">> ELSE <<>>
             field == <<"\"">> \o fields[1].key \o <<"\"">> \o blank \o <<":">>
                        \o blank \o fields[1].value
         IN IF Len(fields) = 1
            THEN field
            ELSE field \o blank \o <<",">> \o blank
                   \o render_fields(Tail(fields), spaced)

\* The text of a document.
render_document(document) ==
    LET blank == IF document.spaced THEN <<" ">> ELSE <<>>
        content == render_fields(document.fields, document.spaced)
    IN IF document.braced
       THEN blank \o <<"{">> \o blank \o content \o blank \o <<"}">> \o blank
       ELSE content

\* One credential handed to to_json and the text handed to from_json: either
\* what to_json wrote or the text of a document.
to_json_call ==
    /\ credential # None
    /\ credential.kind = "json"
    /\ IsSome(credential.wallet)
    /\ credential.json = None
    /\ credential' =
         [credential EXCEPT !.json = Some(to_json(Unwrap(credential.wallet))[2])]
    /\ UNCHANGED <<app_vars, client_call>>

from_json_call ==
    /\ credential # None
    /\ credential.kind = "json"
    /\ IsSome(credential.json)
    /\ credential.parsed = None
    /\ credential' =
         [credential EXCEPT !.parsed = Some(from_json(Unwrap(credential.json)))]
    /\ UNCHANGED <<app_vars, client_call>>

CredentialInit ==
    /\ app_at_rest
    /\ client_call = None
    /\ credential \in
         {[kind |-> "json", wallet |-> Some(wallet), document |-> None,
           json |-> None, parsed |-> None] : wallet \in Wallets}
           \cup {[kind |-> "json", wallet |-> None, document |-> Some(document),
                  json |-> Some(render_document(document)), parsed |-> None] :
                 document \in Documents}

CredentialNext == to_json_call \/ from_json_call

CredentialSpec == CredentialInit /\ [][CredentialNext]_vars

----------------------------------------------------------------------------
(* Keychain: KeychainManager over the one keyring entry of (service_name,   *)
(* username), which holds the credential as text.                           *)

\* keyring::Entry::new; entry_new_ok = FALSE is its failure.
Entry_new(entry_new_ok) ==
    IF entry_new_ok THEN Ok("entry") ELSE Err("PlatformFailure")

\* The map_err of Entry::new in store_wallet, load_wallet and delete_wallet.
entry_new_error == Access("Failed to create keychain entry")

\* keyring::Entry::set_password; access_ok = FALSE is a failure of the
\* platform call.
set_password(entry, json_data, access_ok) ==
    IF access_ok
    THEN [entry |-> Some(json_data), result |-> Ok("unit")]
    ELSE [entry |-> entry, result |-> Err("PlatformFailure")]

\* keyring::Entry::get_password
get_password(entry, access_ok) ==
    IF ~access_ok THEN Err("PlatformFailure")
    ELSE IF entry = None THEN Err("NoEntry")
    ELSE Ok(Unwrap(entry))

\* keyring::Entry::delete_credential
delete_credential(entry, access_ok) ==
    IF ~access_ok THEN [entry |-> entry, result |-> Err("PlatformFailure")]
    ELSE IF entry = None THEN [entry |-> entry, result |-> Err("NoEntry")]
    ELSE [entry |-> None, result |-> Ok("unit")]

\* The map_err of load_wallet and delete_wallet.
keyring_error(e, msg) == IF e = "NoEntry" THEN NotFound ELSE Access(msg)

keychain_call(op, entry_new_ok, access_ok, result) ==
    [op |-> op, entry_new_ok |-> entry_new_ok, access_ok |-> access_ok,
     result |-> result]

\* KeychainManager::store_wallet; `stored` remembers the argument of the
\* latest call that returned Ok.
store_wallet_call(wallet, entry_new_ok, access_ok) ==
    /\ credential # None
    /\ credential.kind = "keychain"
    /\ LET json_data == to_json(wallet)[2]
           entry == Entry_new(entry_new_ok)
           set == IF IsOk(entry)
                  THEN set_password(credential.entry, json_data, access_ok)
                  ELSE [entry |-> credential.entry, result |-> entry]
       IN credential' =
            [credential EXCEPT
               !.entry = set.entry,
               !.stored = IF IsOk(set.result) THEN Some(wallet) ELSE @,
               !.call = Some(keychain_call(
                   "store_wallet", entry_new_ok, access_ok,
                   IF ~IsOk(entry)
                   THEN Err(entry_new_error)
                   ELSE IF IsOk(set.result)
                   THEN Ok("unit")
                   ELSE Err(Access("Failed to store wallet in keychain"))))]
    /\ UNCHANGED <<app_vars, client_call>>

\* KeychainManager::load_wallet
load_wallet_call(entry_new_ok, access_ok) ==
    /\ credential # None
    /\ credential.kind = "keychain"
    /\ LET entry == Entry_new(entry_new_ok)
           json_data == get_password(credential.entry, access_ok)
       IN credential' =
            [credential EXCEPT
               !.call = Some(keychain_call(
                   "load_wallet", entry_new_ok, access_ok,
                   IF ~IsOk(entry)
                   THEN Err(entry_new_error)
                   ELSE IF IsOk(json_data)
                   THEN from_json(json_data[2])
                   ELSE Err(keyring_error(json_data[2],
                                          "Failed to load wallet from keychain"))))]
    /\ UNCHANGED <<app_vars, client_call>>

\* KeychainManager::delete_wallet
delete_wallet_call(entry_new_ok, access_ok) ==
    /\ credential # None
    /\ credential.kind = "keychain"
    /\ LET entry == Entry_new(entry_new_ok)
           deleted == IF IsOk(entry)
                      THEN delete_credential(credential.entry, access_ok)
                      ELSE [entry |-> credential.entry, result |-> entry]
       IN credential' =
            [credential EXCEPT
               !.entry = deleted.entry,
               !.stored = IF IsOk(deleted.result) THEN None ELSE @,
               !.call = Some(keychain_call(
                   "delete_wallet", entry_new_ok, access_ok,
                   IF ~IsOk(entry)
                   THEN Err(entry_new_error)
                   ELSE IF IsOk(deleted.result)
                   THEN Ok("unit")
                   ELSE Err(keyring_error(deleted.result[2],
                                          "Failed to delete wallet from keychain"))))]
    /\ UNCHANGED <<app_vars, client_call>>

\* A store that holds no entry.
KeychainInit ==
    /\ app_at_rest
    /\ client_call = None
    /\ credential = [kind |-> "keychain", entry |-> None, stored |-> None,
                     call |-> None]

KeychainNext ==
    \E entry_new_ok \in BOOLEAN, access_ok \in BOOLEAN :
        \/ \E wallet \in Wallets : store_wallet_call(wallet, entry_new_ok, access_ok)
        \/ load_wallet_call(entry_new_ok, access_ok)
        \/ delete_wallet_call(entry_new_ok, access_ok)

KeychainSpec == KeychainInit /\ [][KeychainNext]_vars

----------------------------------------------------------------------------
(* Properties: the stored credential (C18, C19, C20) *)

\* C18: for every credential x handed to to_json, from_json of the text
\* to_json wrote succeeds and gives a record with the mnemonic and the
\* created_at of x.
C18_RoundTrip ==
    (/\ credential # None
     /\ credential.kind = "json"
     /\ IsSome(credential.wallet)
     /\ IsSome(credential.parsed))
      => Unwrap(credential.parsed) = Ok(Unwrap(credential.wallet))

known_field(field) == field.key = mnemonic_key \/ field.key = created_at_key

has_field(document, key) ==
    \E i \in DOMAIN document.fields : document.fields[i].key = key

unsigned_integer(text) ==
    text # <<>> /\ \A i \in DOMAIN text : is_digit(text[i])

\* C19: from_json gives for a document what it gives for the document
\* without its unknown fields, and it fails with Deserialize for a document
\* that has no mnemonic field, or no created_at field, or a created_at that
\* is not an unsigned integer.
C19_FromJsonStrict ==
    (/\ credential # None
     /\ credential.kind = "json"
     /\ IsSome(credential.document)
     /\ IsSome(credential.parsed))
      => LET document == Unwrap(credential.document)
             result == Unwrap(credential.parsed)
         IN /\ result = from_json(render_document(
                   [document EXCEPT !.fields = SelectSeq(@, known_field)]))
            /\ (\/ ~has_field(document, mnemonic_key)
                \/ ~has_field(document, created_at_key)
                \/ \E i \in DOMAIN document.fields :
                     /\ document.fields[i].key = created_at_key
                     /\ ~unsigned_integer(document.fields[i].value))
                 => /\ result[1] = "Err"
                    /\ result[2][1] = "Deserialize"

\* C20: load_wallet on a store that holds no entry returns NotFound, and
\* after successful store_wallet calls it returns the record of the latest
\* one.
C20_LoadReturnsLatestStored ==
    (/\ credential # None
     /\ credential.kind = "keychain"
     /\ IsSome(credential.call)
     /\ Unwrap(credential.call).op = "load_wallet"
     /\ Unwrap(credential.call).entry_new_ok
     /\ Unwrap(credential.call).access_ok)
      => Unwrap(credential.call).result =
           IF credential.entry = None
           THEN Err(NotFound)
           ELSE Ok(Unwrap(credential.stored))

----------------------------------------------------------------------------
(* Properties: phrases and derivation (C21, C22) *)

\* C21: derivation rejects every phrase that breaks a rule (word count,
\* dictionary, checksum) with an invalid-mnemonic error, and a press of
\* Import with such a phrase is answered by the import error message and
\* changes neither WalletData nor the stored credential.
C21_InvalidPhraseRejected ==
    [][\A seed_words \in InvalidPhrases :
         wallet_import_system(seed_words) =>
            /\ generate_wallet_from_mnemonic(seed_words) = Err("Invalid mnemonic")
            /\ buttons' = {"Failed to Import Wallet"}
            /\ wallet_data' = wallet_data
            /\ keychain' = keychain]_vars

\* C21 witness: the Import view shows the import error message, which only a
\* press of Import with a refused phrase puts there, and the wallet in memory
\* and the credential in the store are still those of phrase 1.
C21_Witness ==
    /\ started
    /\ app_state = "WalletMenu"
    /\ wallet_state = "Import"
    /\ buttons = {"Failed to Import Wallet"}
    /\ wallet_data = [private_key |-> Some(1), address |-> Some(1),
                      mnemonic |-> Some(1)]
    /\ keychain = Some(SecureWalletData(1, SystemTime_now))

\* C22: the identity in WalletData, whether it was derived at startup from
\* the stored credential or by generate or import, is always the key and the
\* address derivation gives for the phrase it holds; so the address derived
\* at startup from a credential is the one obtained when it was stored.
C22_DerivationDeterministic ==
    IF IsSome(wallet_data.mnemonic)
    THEN /\ IsSome(wallet_data.private_key)
         /\ IsSome(wallet_data.address)
         /\ generate_wallet_from_mnemonic(Unwrap(wallet_data.mnemonic)) =
              Ok(<<Unwrap(wallet_data.private_key), Unwrap(wallet_data.address)>>)
    ELSE wallet_data = WalletData_default

\* C22 witness: after startup the wallet in memory is the one derived from
\* the stored credential of phrase 2.
C22_Witness ==
    /\ started
    /\ app_state = "MainMenu"
    /\ keychain = Some(SecureWalletData(2, SystemTime_now))
    /\ wallet_data = [private_key |-> Some(2), address |-> Some(2),
                      mnemonic |-> Some(2)]

----------------------------------------------------------------------------
(* Properties: errors of completed tasks (C23) *)

\* C23: in a run of async_task_polling_system, a task that finished with an
\* error leaves its message in the error field of its status record and its
\* in-progress flag cleared, and the result fields recorded before (available,
\* locked, last_updated; is_registered, last_checked) are as they were.
C23_ErrorCaptured ==
    [][async_task_polling_system =>
        /\ (/\ Finished(async_tasks.balance_task)
            /\ ~IsOk(Unwrap(poll_once(async_tasks.balance_task))))
             => balance_state' =
                  [balance_state EXCEPT
                     !.loading = FALSE,
                     !.error = Some(Unwrap(poll_once(async_tasks.balance_task))[2])]
        /\ (/\ Finished(async_tasks.registration_check_task)
            /\ ~IsOk(Unwrap(poll_once(async_tasks.registration_check_task))))
             => /\ ~registration_state'.checking
                /\ registration_state'.error =
                     Some(Unwrap(poll_once(async_tasks.registration_check_task))[2])
                /\ registration_state'.is_registered = registration_state.is_registered
                /\ registration_state'.last_checked = registration_state.last_checked
        /\ (/\ Finished(async_tasks.registration_task)
            /\ ~IsOk(Unwrap(poll_once(async_tasks.registration_task))))
             => /\ ~registration_state'.registering
                /\ registration_state'.error =
                     Some(Unwrap(poll_once(async_tasks.registration_task))[2])
                /\ registration_state'.is_registered = registration_state.is_registered
                /\ registration_state'.last_checked = registration_state.last_checked]_vars

----------------------------------------------------------------------------
(* Properties: backoff (C24) *)

\* C24: the waits of a retried call are 1000 ms after the first failed
\* attempt, 2000 ms after the second and 4000 ms after the third (1000 * 2^k
\* after failed attempt k, counted from 0); one wait follows every failed
\* attempt but the final one of a call that returned an error.
C24_BackoffDoubles ==
    client_call # None =>
        /\ Len(client_call.slept) =
             IF IsSome(client_call.returned) /\ ~IsOk(Unwrap(client_call.returned))
             THEN client_call.failures - 1
             ELSE client_call.failures
        /\ \A k \in DOMAIN client_call.slept :
             /\ client_call.slept[k] = 1000 * (2 ^ (k - 1))
             /\ client_call.slept[k] = <<1000, 2000, 4000>>[k]

\* C24 witness: a balance call that failed four times has waited 1 s, 2 s and
\* 4 s and has returned its error without a further wait.
C24_Witness ==
    /\ client_call # None
    /\ client_call.method = "get_gala_balance"
    /\ client_call.attempts = 4
    /\ IsSome(client_call.returned)
    /\ ~IsOk(Unwrap(client_call.returned))
    /\ client_call.slept = <<1000, 2000, 4000>>

----------------------------------------------------------------------------
(* Chain client: endpoint URLs.  ApiSettings, GalaChainClient::new and the  *)
(* three URL builders, over texts as sequences of characters.               *)

channel_placeholder == <<"{", "c", "h", "a", "n", "n", "e", "l", "}">>
contract_placeholder == <<"{", "c", "o", "n", "t", "r", "a", "c", "t", "}">>

\* The values of ApiSettings::default.
default_operations_base_url ==
    <<"h", "t", "t", "p", ":", "/", "/", "l", "o", "c", "a", "l", "h", "o",
      "s", "t", ":", "3", "0", "0", "0">>
default_identity_base_url ==
    <<"h", "t", "t", "p", ":", "/", "/", "l", "o", "c", "a", "l", "h", "o",
      "s", "t", ":", "4", "0", "0", "0">>
default_registration_endpoint ==
    <<"/", "a", "p", "i", "/", "i", "d", "e", "n", "t", "i", "t", "i", "e",
      "s", "/", "r", "e", "g", "i", "s", "t", "e", "r">>
default_registration_check_endpoint ==
    <<"/", "a", "p", "i", "/", "{", "c", "h", "a", "n", "n", "e", "l", "}",
      "/", "{", "c", "o", "n", "t", "r", "a", "c", "t", "}", "/", "G", "e",
      "t", "P", "u", "b", "l", "i", "c", "K", "e", "y">>
default_balance_endpoint ==
    <<"/", "a", "p", "i", "/", "{", "c", "h", "a", "n", "n", "e", "l", "}",
      "/", "{", "c", "o", "n", "t", "r", "a", "c", "t", "}", "/", "F", "e",
      "t", "c", "h", "B", "a", "l", "a", "n", "c", "e", "s">>
default_contract_name ==
    <<"G", "a", "l", "a", "C", "h", "a", "i", "n", "T", "o", "k", "e", "n">>
default_identity_contract_name ==
    <<"P", "u", "b", "l", "i", "c", "K", "e", "y", "C", "o", "n", "t", "r",
      "a", "c", "t">>
default_channel_name ==
    <<"p", "r", "o", "d", "u", "c", "t">>

ApiSettings_default ==
    [operations_base_url |-> default_operations_base_url,
     identity_base_url |-> default_identity_base_url,
     registration_endpoint |-> default_registration_endpoint,
     registration_check_endpoint |-> default_registration_check_endpoint,
     balance_endpoint |-> default_balance_endpoint,
     contract_name |-> default_contract_name,
     identity_contract_name |-> default_identity_contract_name,
     channel_name |-> default_channel_name]

\* The settings a client is built from: the defaults and other values of
\* each configurable field.
ApiSettings ==
    [operations_base_url : {default_operations_base_url},
     identity_base_url : {default_identity_base_url},
     registration_endpoint :
         {default_registration_endpoint,
          <<"/">> \o channel_placeholder \o <<"/", "r">>},
     registration_check_endpoint :
         {default_registration_check_endpoint,
          <<"/">> \o contract_placeholder \o <<"/">> \o channel_placeholder
            \o <<"/">> \o channel_placeholder},
     balance_endpoint :
         {default_balance_endpoint,
          <<"/", "b", "/">> \o contract_placeholder \o <<"?", "c", "=">>
            \o channel_placeholder \o <<"&">> \o contract_placeholder},
     contract_name : {default_contract_name, <<"T">>},
     identity_contract_name : {default_identity_contract_name, <<"P">>},
     channel_name : {default_channel_name, <<"c", "h">>, contract_placeholder}]

\* GalaChainClient::new
GalaChainClient_new(settings) ==
    [operations_api |-> settings.operations_base_url,
     identity_api |-> settings.identity_base_url,
     settings |-> settings]

\* GalaChainClient::get_registration_url
get_registration_url(self) ==
    self.identity_api \o self.settings.registration_endpoint

\* GalaChainClient::get_registration_check_url
get_registration_check_url(self) ==
    LET endpoint ==
          replace(replace(self.settings.registration_check_endpoint,
                          channel_placeholder, self.settings.channel_name),
                  contract_placeholder, self.settings.identity_contract_name)
    IN self.operations_api \o endpoint

\* A faulty variant of get_balance_url: the operations server is addressed.
get_balance_url_operations_api(self) ==
    LET endpoint ==
          replace(replace(self.settings.balance_endpoint,
                          channel_placeholder, self.settings.channel_name),
                  contract_placeholder, self.settings.contract_name)
    IN self.operations_api \o endpoint

\* GalaChainClient::get_balance_url
get_balance_url(self) ==
    LET endpoint ==
          replace(replace(self.settings.balance_endpoint,
                          channel_placeholder, self.settings.channel_name),
                  contract_placeholder, self.settings.contract_name)
    IN self.identity_api \o endpoint

\* One client and the URL its latest builder call returned.
get_registration_url_call ==
    /\ client_call # None
    /\ client_call' =
         [client_call EXCEPT !.url =
            Some(<<"get_registration_url",
                   get_registration_url(client_call.client)>>)]
    /\ UNCHANGED <<app_vars, credential>>

get_registration_check_url_call ==
    /\ client_call # None
    /\ client_call' =
         [client_call EXCEPT !.url =
            Some(<<"get_registration_check_url",
                   get_registration_check_url(client_call.client)>>)]
    /\ UNCHANGED <<app_vars, credential>>

get_balance_url_call ==
    /\ client_call # None
    /\ client_call' =
         [client_call EXCEPT !.url =
            Some(<<"get_balance_url", get_balance_url(client_call.client)>>)]
    /\ UNCHANGED <<app_vars, credential>>

UrlInit ==
    /\ app_at_rest
    /\ credential = None
    /\ client_call \in
         {[client |-> GalaChainClient_new(settings), url |-> None] :
            settings \in ApiSettings}

UrlNext ==
    \/ get_registration_url_call
    \/ get_registration_check_url_call
    \/ get_balance_url_call

UrlSpec == UrlInit /\ [][UrlNext]_vars

----------------------------------------------------------------------------
(* Properties: endpoint URLs (C25) *)

has_prefix(text, prefix) ==
    Len(text) >= Len(prefix) /\ SubSeq(text, 1, Len(prefix)) = prefix

\* `template` with every {channel} replaced by `channel` and every
\* {contract} by `contract`, the template being read once from left to right.
RECURSIVE substituted(_, _, _)
substituted(template, channel, contract) ==
    IF template = <<>>
    THEN <<>>
    ELSE IF has_prefix(template, channel_placeholder)
    THEN channel \o substituted(
             SubSeq(template, Len(channel_placeholder) + 1, Len(template)),
             channel, contract)
    ELSE IF has_prefix(template, contract_placeholder)
    THEN contract \o substituted(
             SubSeq(template, Len(contract_placeholder) + 1, Len(template)),
             channel, contract)
    ELSE <<template[1]>> \o substituted(Tail(template), channel, contract)

built(builder) ==
    /\ client_call # None
    /\ IsSome(client_call.url)
    /\ Unwrap(client_call.url)[1] = builder

built_url == Unwrap(client_call.url)[2]

default_registration_url ==
    <<"h", "t", "t", "p", ":", "/", "/", "l", "o", "c", "a", "l", "h", "o",
      "s", "t", ":", "4", "0", "0", "0", "/", "a", "p", "i", "/", "i", "d",
      "e", "n", "t", "i", "t", "i", "e", "s", "/", "r", "e", "g", "i", "s",
      "t", "e", "r">>
default_balance_url ==
    <<"h", "t", "t", "p", ":", "/", "/", "l", "o", "c", "a", "l", "h", "o",
      "s", "t", ":", "4", "0", "0", "0", "/", "a", "p", "i", "/", "p", "r",
      "o", "d", "u", "c", "t", "/", "G", "a", "l", "a", "C", "h", "a", "i",
      "n", "T", "o", "k", "e", "n", "/", "F", "e", "t", "c", "h", "B", "a",
      "l", "a", "n", "c", "e", "s">>

\* The default settings give the URLs the documentation names.
default_urls ==
    client_call.client.settings = ApiSettings_default
      => /\ built("get_registration_url") => built_url = default_registration_url
         /\ built("get_balance_url") => built_url = default_balance_url

\* C25 as stated: each of the three URLs is its base URL followed by its
\* endpoint template with every {channel} replaced by the channel name and
\* every {contract} by the contract name (the identity contract for the
\* registration check); the defaults give the documented URLs.
C25_EveryTemplateSubstituted ==
    client_call # None =>
        LET settings == client_call.client.settings IN
        /\ built("get_registration_url")
             => built_url = settings.identity_base_url
                  \o substituted(settings.registration_endpoint,
                                 settings.channel_name, settings.contract_name)
        /\ built("get_registration_check_url")
             => built_url = settings.operations_base_url
                  \o substituted(settings.registration_check_endpoint,
                                 settings.channel_name,
                                 settings.identity_contract_name)
        /\ built("get_balance_url")
             => built_url = settings.identity_base_url
                  \o substituted(settings.balance_endpoint,
                                 settings.channel_name, settings.contract_name)
        /\ default_urls

\* C25, amended: the registration URL is the identity base URL followed by
\* the registration endpoint as configured, with no substitution; the check
\* URL and the balance URL are their base URL followed by the template in
\* which first every {channel} was replaced by the channel name and then
\* every {contract} by the contract name, one brought in by the channel name
\* included; for a channel name without placeholder that is the template with
\* every placeholder replaced.  The defaults give the documented URLs.
C25_TemplatesOfCheckAndBalance ==
    client_call # None =>
        LET settings == client_call.client.settings
            plain == settings.channel_name # contract_placeholder
        IN
        /\ built("get_registration_url")
             => built_url = settings.identity_base_url
                  \o settings.registration_endpoint
        /\ built("get_registration_check_url")
             => /\ built_url = settings.operations_base_url
                     \o substituted(
                          substituted(settings.registration_check_endpoint,
                                      settings.channel_name, contract_placeholder),
                          channel_placeholder, settings.identity_contract_name)
                /\ plain => built_url = settings.operations_base_url
                     \o substituted(settings.registration_check_endpoint,
                                    settings.channel_name,
                                    settings.identity_contract_name)
        /\ built("get_balance_url")
             => /\ built_url = settings.identity_base_url
                     \o substituted(
                          substituted(settings.balance_endpoint,
                                      settings.channel_name, contract_placeholder),
                          channel_placeholder, settings.contract_name)
                /\ plain => built_url = settings.identity_base_url
                     \o substituted(settings.balance_endpoint,
                                    settings.channel_name, settings.contract_name)
        /\ default_urls

\* C25 witness: the balance URL of the default settings has been built.
C25_Witness ==
    /\ built("get_balance_url")
    /\ client_call.client.settings = ApiSettings_default
    /\ built_url = default_balance_url

----------------------------------------------------------------------------
(* Properties: flags, slots and the wallet (C26 .. C30) *)

\* C26: each in-progress flag is true exactly when its slot is occupied.
C26_FlagAgreesWithSlot ==
    /\ balance_state.loading <=> IsSome(async_tasks.balance_task)
    /\ registration_state.checking <=> IsSome(async_tasks.registration_check_task)
    /\ registration_state.registering <=> IsSome(async_tasks.registration_task)

\* C27: the registration-check slot and the registration-submit slot are
\* never occupied together.
C27_CheckAndRegisterExclusive ==
    ~(/\ IsSome(async_tasks.registration_check_task)
      /\ IsSome(async_tasks.registration_task))

\* C28: a result that a poll writes to a status record comes from a task
\* submitted for the address (or the key) WalletData holds at that moment,
\* and a step that replaces the wallet leaves no result of the wallet before
\* it in the records (last_updated and is_registered are unset).
C28_ResultsBelongToWallet ==
    [][/\ (/\ async_task_polling_system
           /\ Finished(async_tasks.balance_task)
           /\ IsOk(Unwrap(poll_once(async_tasks.balance_task))))
            => /\ IsSome(wallet_data.address)
               /\ Unwrap(async_tasks.balance_task).for =
                    ethereum_to_galachain_address(Unwrap(wallet_data.address))
       /\ (/\ async_task_polling_system
           /\ Finished(async_tasks.registration_check_task)
           /\ IsOk(Unwrap(poll_once(async_tasks.registration_check_task))))
            => /\ IsSome(wallet_data.address)
               /\ Unwrap(async_tasks.registration_check_task).for =
                    ethereum_to_galachain_address(Unwrap(wallet_data.address))
       /\ (/\ async_task_polling_system
           /\ Finished(async_tasks.registration_task)
           /\ IsOk(Unwrap(poll_once(async_tasks.registration_task))))
            => /\ IsSome(wallet_data.private_key)
               /\ Unwrap(async_tasks.registration_task).for =
                    get_public_key_from_private(Unwrap(wallet_data.private_key))
       /\ (wallet_data'.address # wallet_data.address)
            => /\ balance_state'.last_updated = None
               /\ registration_state'.is_registered = None]_vars

\* What happens to the identity and to the credential in a press of
\* Generate or Import: nothing, or the credential is stored and the identity
\* published is that of the stored phrase.
stored_then_published ==
    \/ wallet_data' = wallet_data /\ keychain' = keychain
    \/ /\ IsSome(keychain')
       /\ wallet_data'.mnemonic = Some(Unwrap(keychain').mnemonic)

\* C29: whenever WalletData holds a mnemonic the keychain holds a credential
\* with that mnemonic, and a press of Generate or Import either stores the
\* credential and publishes its identity or changes neither.
C29_IdentityIsStored ==
    /\ [](IsSome(wallet_data.mnemonic)
            => /\ IsSome(keychain)
               /\ Unwrap(keychain).mnemonic = Unwrap(wallet_data.mnemonic))
    /\ [][(\/ wallet_generate_system
           \/ \E seed_words \in Phrases : wallet_import_system(seed_words))
            => stored_then_published]_vars

\* C29 witness: with the credential of phrase 1 stored and loaded, a press of
\* Generate has left its message in the content area and the identity in
\* memory and the credential are both still those of phrase 1.
C29_Witness ==
    /\ started
    /\ app_state = "WalletMenu"
    /\ wallet_state = "Generate"
    /\ buttons = {}
    /\ wallet_data.mnemonic = Some(1)
    /\ keychain = Some(SecureWalletData(1, SystemTime_now))

\* C30: a slot is occupied only while WalletData holds the address (the
\* private key for a registration submit); while no wallet is loaded none of
\* the three buttons is shown, the guard of each handler refuses, and slots,
\* flags and status records are as they were at startup.
C30_NoTaskWithoutWallet ==
    /\ (IsSome(async_tasks.balance_task)
          \/ IsSome(async_tasks.registration_check_task))
         => IsSome(wallet_data.address)
    /\ IsSome(async_tasks.registration_task) => IsSome(wallet_data.private_key)
    /\ ~balance_submit_accepted(balance_state, WalletData_default)
    /\ ~check_submit_accepted(registration_state, WalletData_default)
    /\ ~register_submit_accepted(registration_state, WalletData_default)
    /\ wallet_data.address = None
         => /\ buttons \cap {"RefreshBalance", "CheckRegistration",
                             "RegisterIdentity"} = {}
            /\ async_tasks = AsyncTasks_default
            /\ balance_state = BalanceState_default
            /\ registration_state = RegistrationState_default

\* C30 witness: no wallet is loaded and the Balance view is open: it shows no
\* Refresh button and nothing has been submitted.
C30_Witness ==
    /\ started
    /\ wallet_data = WalletData_default
    /\ app_state = "WalletMenu"
    /\ wallet_state = "Balance"
    /\ buttons = {}
    /\ async_tasks = AsyncTasks_default

====
